---- MODULE Spec2Model ----
(***************************************************************************)
(* The staged analysis pipeline of grindoreiro: the stage engine           *)
(* (AnalysisPipeline.execute), the eight standard steps and their gates,   *)
(* GrandoreiroProcessor.process_sample with its cleanup policy, the        *)
(* session directory operations of core.py and the operator commands of    *)
(* session_manager.py that act on a session after its run.                 *)
(***************************************************************************)
EXTENDS Integers, Sequences, FiniteSets, TLC

VARIABLES
    steps,          \* AnalysisPipeline.steps: the ordered list of step names
    keep_temp,      \* process_sample's keep_temp argument
    rm_faults,      \* whether the environment may fail cleanup's file operations
    pc,             \* position of process_sample
    idx,            \* index in steps of the engine's next loop iteration
    gated,          \* the steps whose can_execute was invoked, in order
    stage_results,  \* context.stage_results / metadata.stages
    dll_info,       \* metadata.dll_info is set
    urls_found,     \* metadata.urls_found
    cnc_url,        \* metadata.cnc_url
    download_url,   \* metadata.download_url
    analysis_end,   \* metadata.analysis_end / total_duration are set
    threat_level,   \* metadata.threat_level
    malware_family, \* metadata.malware_family
    analysis_summary, \* metadata.analysis_summary: empty, the summary, or "Pipeline failed"
    dir_exists,     \* config.temp_dir / session_id exists
    manifest_exists,\* session_manifest.txt exists in it
    cleaned_lines,  \* number of "Cleaned up:" lines appended to the manifest
    debug_marker,   \* the top-level .debug file exists
    nested_debug,   \* some file *.debug exists deeper in the session tree
    marker_write,   \* outcome of the latest create_session_debug_marker call
    cleanup_log,    \* one entry per cleanup_session_temp_dir call
    op_count,       \* session_manager commands issued after the run
    run,            \* two runs sharing the cache: each run's position and files
    cache,          \* content of the cache entry get_cache_path(download_url)
    output_files,   \* config.output_dir: file name -> the run that wrote it last
    ended,          \* the runs that completed their cache write, in order
    overlap,        \* some run started while another was in progress
    data,           \* the bytes of the file given to extract_strings
    strings,        \* the list extract_strings returned
    text,           \* the strings given to find_urls, one per line
    url_set,        \* the set find_urls returned
    an_pc,          \* "ready" before the analyzer function is applied, "done" after
    payload,        \* the bytes the server's answer was made from
    iso_dir,        \* the step's iso directory: file name -> content
    decode_pc,      \* decode_iso: "ready", then "returned" or "raised"
    wxs,            \* the CustomAction tags of the *.wxs files in msi_script
    msi_output,     \* the files under the installer's output directory
    exclude_patterns, \* find_dll_files' exclude_patterns argument
    dll_files,      \* the files find_dll_files returned
    select_pc,      \* find_dll_files: "ready", then the branch it took
    cache_urls,     \* the URL each of two calls of get_cache_path is given
    cache_paths,    \* what each call returned, NoPath before it
    zip_members,    \* the files extract_zip put under the extract directory
    tool_calls,     \* the invocations of dark.exe made by extract_msi, in order
    msi_outcome,    \* extract_msi: "none" before the call, then "returned" or "raised"
    hash_calls,     \* logical file -> number of times the run computed its hash
    cache_store,    \* config.cache_dir: file name -> the URL its content was fetched from
    artifact,       \* per run: where its ISO came from and the URL it was fetched from
    url_records     \* per run: the cnc_url and download_url its metadata holds

ctx_vars  == <<stage_results, dll_info, urls_found, cnc_url, download_url,
               analysis_end, threat_level, malware_family, analysis_summary>>
fs_vars   == <<dir_exists, manifest_exists, cleaned_lines, debug_marker, nested_debug>>
cache_vars == <<run, cache, output_files, ended, overlap>>
analyzer_vars == <<data, strings, text, url_set, an_pc>>
decoder_vars == <<payload, iso_dir, decode_pc>>
selector_vars == <<wxs, msi_output, exclude_patterns, dll_files, select_pc>>
cache_path_vars == <<cache_urls, cache_paths>>
installer_vars == <<zip_members, tool_calls, msi_outcome, hash_calls>>
cache_dir_vars == <<cache_store, artifact>>
lookup_vars == <<url_records>>
tool_vars == <<decoder_vars, selector_vars, cache_path_vars, installer_vars, cache_dir_vars,
               lookup_vars>>
detail_vars == <<cache_vars, analyzer_vars, tool_vars>>
pipeline_vars == <<steps, keep_temp, rm_faults, pc, idx, gated, stage_results, dll_info,
               urls_found, cnc_url, download_url, analysis_end, threat_level,
               malware_family, analysis_summary, dir_exists, manifest_exists, cleaned_lines,
               debug_marker, nested_debug, marker_write, cleanup_log, op_count>>
vars == <<pipeline_vars, detail_vars>>

\* Number of session_manager commands explored after a run.
MaxOperatorCommands == 2

None == "None"

\* ------------------------------------------------------------------------
\* Two runs of process_sample on samples that embed the same download URL

Runs == {1, 2}

\* A path at which no file exists
Absent == "absent"

\* A run that has not started: no session, no file written
IdleRun ==
    [pc |-> "idle", seq |-> 0, session_id |-> None, sample |-> None, path |-> None,
     fetched |-> FALSE, iso |-> Absent, off |-> 0, decoded |-> "none", iso_ok |-> FALSE,
     written |-> {}]

CacheIdle ==
    /\ run = [r \in Runs |-> IdleRun]
    /\ cache = Absent
    /\ output_files = <<>>
    /\ ended = <<>>
    /\ overlap = FALSE

\* No file and no strings handed to the analyzer
AnalyzerIdle ==
    /\ data = <<>>
    /\ strings = <<>>
    /\ text = <<>>
    /\ url_set = {}
    /\ an_pc = "ready"

\* No file handed to the decoder
DecoderIdle ==
    /\ payload = <<>>
    /\ iso_dir = <<>>
    /\ decode_pc = "ready"

\* No installer output handed to the selector
SelectorIdle ==
    /\ wxs = <<>>
    /\ msi_output = {}
    /\ exclude_patterns = {}
    /\ dll_files = {}
    /\ select_pc = "ready"

\* The value of a path not computed yet
NoPath == [dir |-> None, name |-> <<>>]

\* No URL handed to get_cache_path
CachePathIdle ==
    /\ cache_urls = [r \in Runs |-> <<>>]
    /\ cache_paths = [r \in Runs |-> NoPath]

\* The logical files of a run: the sample, the installer and another member of
\* the sample archive, the payload library, and the secondary artifacts
SAMPLE      == "sample"
INSTALLER   == "msi"
EXTRACTED   == "extracted"
DLL         == "dll"
ISO         == "iso"
DECODED_ZIP == "decoded_zip"
EXECUTABLE  == "executable"

LogicalFiles == {SAMPLE, INSTALLER, EXTRACTED, DLL, ISO, DECODED_ZIP, EXECUTABLE}

\* No archive unpacked, no tool run, no hash computed
InstallerIdle ==
    /\ zip_members = {}
    /\ tool_calls = <<>>
    /\ msi_outcome = "none"
    /\ hash_calls = [f \in LogicalFiles |-> 0]

\* A run that has no ISO yet
NoArtifact == [from |-> "none", origin |-> <<>>]

\* An empty cache directory, no run served
CacheDirIdle ==
    /\ cache_store = <<>>
    /\ artifact = [r \in Runs |-> NoArtifact]

\* The metadata of a run whose analyze_urls has not run: no URL recorded
NoRecord == [done |-> FALSE, cnc_url |-> <<None>>, download_url |-> <<None>>]

LookupIdle == url_records = [r \in Runs |-> NoRecord]

ToolsIdle ==
    /\ DecoderIdle /\ SelectorIdle /\ CachePathIdle /\ InstallerIdle /\ CacheDirIdle
    /\ LookupIdle

\* ------------------------------------------------------------------------
\* PipelineStage (the step registered for a stage carries the same name)
INITIALIZE      == "initialize"
EXTRACT_ZIP     == "extract_zip"
EXTRACT_MSI     == "extract_msi"
EXTRACT_DLL     == "extract_dll"
ANALYZE_STRINGS == "analyze_strings"
ANALYZE_URLS    == "analyze_urls"
PROCESS_ISO     == "process_iso"
FINALIZE        == "finalize"

\* GrandoreiroProcessor._setup_pipeline
StandardSteps ==
    <<INITIALIZE, EXTRACT_ZIP, EXTRACT_MSI, EXTRACT_DLL,
      ANALYZE_STRINGS, ANALYZE_URLS, PROCESS_ISO, FINALIZE>>

Omit(k) ==
    SubSeq(StandardSteps, 1, k - 1) \o SubSeq(StandardSteps, k + 1, Len(StandardSteps))

\* AnalysisPipeline.add_step builds any list; the lists explored are the
\* standard one and the standard one with a single step left out.
Pipelines == {StandardSteps} \cup {Omit(k) : k \in 1..Len(StandardSteps)}

\* A PipelineStep subclass of a direct caller of AnalysisPipeline whose
\* can_execute or execute raises instead of returning, added before step k
CALLER_STEP == "caller_step"

WithCallerStep(k) ==
    [i \in 1..(Len(StandardSteps) + 1) |->
        IF i < k THEN StandardSteps[i]
        ELSE IF i = k THEN CALLER_STEP
        ELSE StandardSteps[i - 1]]

CallerPipelines == {WithCallerStep(k) : k \in 1..(Len(StandardSteps) + 1)}

\* ------------------------------------------------------------------------
\* URLAnalyzer: the two lookups.  A URL is the sequence of its symbols: the
\* literal "5050/index.php" and its upper-case spelling are one symbol each
\* (neither holds a piece of the other pattern), any other symbol is a letter.
CNC_PATTERN == <<"5050/index.php">>

\* The None a lookup returns: a value that is the text of no URL
NoUrl == <<None>>

\* find_download_url's default pattern
DOWNLOAD_PATTERN == <<"i", "s", "o">>

\* str.lower() of one symbol
lower_symbol(c) ==
    CASE c = "I" -> "i"
      [] c = "S" -> "s"
      [] c = "O" -> "o"
      [] c = "5050/INDEX.PHP" -> "5050/index.php"
      [] OTHER -> c

\* str.lower()
lower(s) == [k \in 1..Len(s) |-> lower_symbol(s[k])]

\* "sub in s"
Contains(sub, s) ==
    \E k \in 0..(Len(s) - Len(sub)) : SubSeq(s, k + 1, k + Len(sub)) = sub

\* The URLs a sample's strings can hold in a run: one with neither pattern,
\* one with the first, two with the second
URLS ==
    {<<"x">>, <<"x", "5050/index.php">>, <<"x", "i", "s", "o">>, <<"x", "I", "S", "O">>}

\* The test of the second lookup comparing the URL as it is spelled.
has_download_pattern_CaseSensitive(url) == Contains(lower(DOWNLOAD_PATTERN), url)

\* "5050/index.php" in url
has_cnc_pattern(url) == Contains(CNC_PATTERN, url)

\* pattern.lower() in url.lower()
has_download_pattern(url) == Contains(lower(DOWNLOAD_PATTERN), lower(url))

\* find_cnc_url: the first match in set iteration order, any match may be first
find_cnc_url(urls) ==
    IF \E u \in urls : has_cnc_pattern(u)
    THEN {u \in urls : has_cnc_pattern(u)} ELSE {NoUrl}

\* find_download_url
find_download_url(urls) ==
    IF \E u \in urls : has_download_pattern(u)
    THEN {u \in urls : has_download_pattern(u)} ELSE {NoUrl}

\* ------------------------------------------------------------------------
\* The result whose status does not follow the success flag.
create_result_AlwaysCompleted(stage, success) ==
    [stage   |-> stage,
     status  |-> "completed",
     success |-> success,
     error_message |-> IF success THEN None ELSE "str(e)"]

\* PipelineStep.create_result
create_result(stage, success) ==
    [stage   |-> stage,
     status  |-> IF success THEN "completed" ELSE "failed",
     success |-> success,
     error_message |-> IF success THEN None ELSE "str(e)"]

\* get_stage_result's None
NoResult == [stage |-> None, status |-> None, success |-> FALSE, error_message |-> None]

\* PipelineContext.get_stage_result: the first recorded result of the stage
get_stage_result(stage) ==
    IF \E i \in 1..Len(stage_results) : stage_results[i].stage = stage
    THEN stage_results[CHOOSE i \in 1..Len(stage_results) :
                          /\ stage_results[i].stage = stage
                          /\ \A j \in 1..(i - 1) : stage_results[j].stage # stage]
    ELSE NoResult

\* "r and r.success"
Truthy(result) == result # NoResult /\ result.success

InitializeStep_can_execute == TRUE

ExtractZipStep_can_execute == Truthy(get_stage_result(INITIALIZE))

\* The gate with its prerequisite test dropped.
ExtractMsiStep_can_execute_Always == TRUE

ExtractMsiStep_can_execute == Truthy(get_stage_result(EXTRACT_ZIP))

\* The gate looking up the stage's own result, which is not recorded yet.
ExtractDllStep_can_execute_OwnStage == Truthy(get_stage_result(EXTRACT_DLL))

ExtractDllStep_can_execute == Truthy(get_stage_result(EXTRACT_MSI))

AnalyzeStringsStep_can_execute == Truthy(get_stage_result(EXTRACT_DLL))

AnalyzeUrlsStep_can_execute == Truthy(get_stage_result(ANALYZE_STRINGS))

\* The gate without the test of metadata.download_url.
ProcessIsoStep_can_execute_NoUrlTest == Truthy(get_stage_result(ANALYZE_URLS))

ProcessIsoStep_can_execute ==
    Truthy(get_stage_result(ANALYZE_URLS)) /\ download_url # NoUrl

FinalizeStep_can_execute == TRUE

can_execute(step) ==
    CASE step = INITIALIZE      -> InitializeStep_can_execute
      [] step = EXTRACT_ZIP     -> ExtractZipStep_can_execute
      [] step = EXTRACT_MSI     -> ExtractMsiStep_can_execute
      [] step = EXTRACT_DLL     -> ExtractDllStep_can_execute
      [] step = ANALYZE_STRINGS -> AnalyzeStringsStep_can_execute
      [] step = ANALYZE_URLS    -> AnalyzeUrlsStep_can_execute
      [] step = PROCESS_ISO     -> ProcessIsoStep_can_execute
      [] step = FINALIZE        -> FinalizeStep_can_execute
      [] step = CALLER_STEP     -> TRUE

\* The fatality test with the stage comparison inverted.
Fatal_Inverted(result) == ~result.success /\ result.stage = PROCESS_ISO

\* The fatality test without the exemption of process_iso.
Fatal_NoExemption(result) == ~result.success

\* AnalysisPipeline.execute, the fatality test of a recorded result
Fatal(result) == ~result.success /\ result.stage # PROCESS_ISO

\* ------------------------------------------------------------------------
InitRun ==
    /\ keep_temp \in BOOLEAN
    /\ rm_faults \in BOOLEAN
    /\ pc = "loop"
    /\ idx = 1
    /\ gated = <<>>
    /\ stage_results = <<>>
    /\ dll_info = FALSE
    /\ urls_found = {}
    /\ cnc_url = NoUrl
    /\ download_url = NoUrl
    /\ analysis_end = FALSE
    /\ threat_level = "unknown"
    /\ malware_family = "unknown"
    /\ analysis_summary = ""
    /\ dir_exists = TRUE
    /\ manifest_exists = TRUE
    /\ cleaned_lines = 0
    /\ debug_marker = FALSE
    /\ nested_debug = FALSE
    /\ marker_write = "none"
    /\ cleanup_log = <<>>
    /\ op_count = 0

Init == steps \in Pipelines /\ InitRun /\ CacheIdle /\ AnalyzerIdle /\ ToolsIdle

\* ------------------------------------------------------------------------
\* core.py: the session directory

\* The outcomes of a file write: done (TRUE), or failed with an exception.
Outcomes == BOOLEAN

\* The operation of a cleanup call that the environment fails, if any.
CleanupFaults == IF rm_faults THEN {"none", "manifest", "rglob", "rmtree"} ELSE {"none"}

\* A search of the top level only: temp_dir.glob(".debug")
HasDebugFiles_TopLevelOnly == debug_marker

\* list(temp_dir.rglob("*.debug")): the marker and any deeper *.debug file
HasDebugFiles == debug_marker \/ nested_debug

\* The call with no except clause: a failed operation leaves the call as an
\* exception.
Logged_Uncaught(force, outcome) ==
    cleanup_log' = Append(cleanup_log,
                          [force |-> force,
                           outcome |-> IF outcome = "failed" THEN "raised" ELSE outcome])

\* How the call ended: the directory was absent, the deletion was skipped or
\* done, or an operation failed and the except clause logged the warning
Logged(force, outcome) ==
    cleanup_log' = Append(cleanup_log, [force |-> force, outcome |-> outcome])

\* cleanup_session_temp_dir(session_id, force); fault names the operation the
\* environment fails in this call, if any.  It never raises.
cleanup_session_temp_dir(force, fault) ==
    IF ~dir_exists
    THEN /\ UNCHANGED fs_vars
         /\ Logged(force, "absent")
    ELSE IF manifest_exists /\ fault = "manifest"
    THEN /\ UNCHANGED fs_vars
         /\ Logged(force, "failed")
    ELSE IF ~force /\ fault = "rglob"
    THEN /\ cleaned_lines' = IF manifest_exists THEN cleaned_lines + 1 ELSE cleaned_lines
         /\ UNCHANGED <<dir_exists, manifest_exists, debug_marker, nested_debug>>
         /\ Logged(force, "failed")
    ELSE IF ~force /\ HasDebugFiles
    THEN /\ cleaned_lines' = IF manifest_exists THEN cleaned_lines + 1 ELSE cleaned_lines
         /\ UNCHANGED <<dir_exists, manifest_exists, debug_marker, nested_debug>>
         /\ Logged(force, "skipped")
    ELSE IF fault = "rmtree"
    THEN \* shutil.rmtree stopped part-way: the directory stays, some files go
         /\ dir_exists' = TRUE
         /\ manifest_exists' \in {manifest_exists, FALSE}
         /\ cleaned_lines' = IF manifest_exists' THEN cleaned_lines + 1 ELSE 0
         /\ debug_marker' \in {debug_marker, FALSE}
         /\ nested_debug' \in {nested_debug, FALSE}
         /\ Logged(force, "failed")
    ELSE /\ dir_exists' = FALSE
         /\ manifest_exists' = FALSE
         /\ cleaned_lines' = 0
         /\ debug_marker' = FALSE
         /\ nested_debug' = FALSE
         /\ Logged(force, "removed")

\* create_session_debug_marker(session_id, reason); ok = FALSE is a failed
\* open/write.  The result is whether the call returned (TRUE) or raised.
MarkerOutcomes == IF dir_exists THEN Outcomes ELSE {FALSE}

create_session_debug_marker(ok) ==
    /\ debug_marker' = (debug_marker \/ ok)
    /\ marker_write' = IF ok THEN "ok" ELSE "failed"
    /\ UNCHANGED <<dir_exists, manifest_exists, cleaned_lines, nested_debug>>

\* ------------------------------------------------------------------------
\* AnalysisPipeline.execute: one loop iteration per action

Iterate(step) ==
    /\ pc = "loop"
    /\ idx <= Len(steps)
    /\ steps[idx] = step

\* add_stage_result putting the newest result first.
Record_Prepend(result) ==
    /\ stage_results' = <<result>> \o stage_results
    /\ gated' = Append(gated, result.stage)
    /\ idx' = idx + 1
    /\ pc' = IF Fatal(result) \/ idx = Len(steps) THEN "finish" ELSE "loop"

\* context.add_stage_result(result), the fatality test and the loop's advance
Record(result) ==
    /\ stage_results' = Append(stage_results, result)
    /\ gated' = Append(gated, result.stage)
    /\ idx' = idx + 1
    /\ pc' = IF Fatal(result) \/ idx = Len(steps) THEN "finish" ELSE "loop"

session_unchanged ==
    UNCHANGED <<steps, keep_temp, rm_faults, detail_vars, marker_write, cleanup_log, op_count>>

InitializeStep ==
    /\ Iterate(INITIALIZE)
    /\ InitializeStep_can_execute
    /\ \E ok \in Outcomes : Record(create_result(INITIALIZE, ok))
    /\ UNCHANGED <<dll_info, urls_found, cnc_url, download_url, analysis_end,
                   threat_level, malware_family, analysis_summary>>
    /\ UNCHANGED fs_vars
    /\ session_unchanged

\* extract_zip unpacks the sample under the session directory; a member named
\* *.debug may be among the files written, also when the extraction fails later
ExtractZipStep ==
    /\ Iterate(EXTRACT_ZIP)
    /\ ExtractZipStep_can_execute
    /\ \E ok \in BOOLEAN, dbg \in BOOLEAN :
          /\ Record(create_result(EXTRACT_ZIP, ok))
          /\ nested_debug' = (nested_debug \/ dbg)
    /\ UNCHANGED <<dll_info, urls_found, cnc_url, download_url, analysis_end,
                   threat_level, malware_family, analysis_summary>>
    /\ UNCHANGED <<dir_exists, manifest_exists, cleaned_lines, debug_marker>>
    /\ session_unchanged

ExtractMsiStep ==
    /\ Iterate(EXTRACT_MSI)
    /\ ExtractMsiStep_can_execute
    /\ \E ok \in BOOLEAN : Record(create_result(EXTRACT_MSI, ok))
    /\ UNCHANGED <<dll_info, urls_found, cnc_url, download_url, analysis_end,
                   threat_level, malware_family, analysis_summary>>
    /\ UNCHANGED fs_vars
    /\ session_unchanged

\* The step without its except clause: a failure leaves execute as an
\* exception, which the engine's handler turns into "Pipeline failed".
ExtractDllStep_Raising ==
    /\ Iterate(EXTRACT_DLL)
    /\ ExtractDllStep_can_execute
    /\ \E ok \in BOOLEAN :
          IF ok
          THEN /\ Record(create_result(EXTRACT_DLL, TRUE))
               /\ dll_info' = TRUE
               /\ UNCHANGED analysis_summary
          ELSE /\ gated' = Append(gated, EXTRACT_DLL)
               /\ analysis_summary' = "Pipeline failed"
               /\ pc' = IF steps = StandardSteps THEN "save" ELSE "executed"
               /\ UNCHANGED <<idx, stage_results, dll_info>>
    /\ UNCHANGED <<urls_found, cnc_url, download_url, analysis_end,
                   threat_level, malware_family>>
    /\ UNCHANGED fs_vars
    /\ session_unchanged

\* The step that never writes metadata.dll_info.
ExtractDllStep_NoDllInfo ==
    /\ Iterate(EXTRACT_DLL)
    /\ ExtractDllStep_can_execute
    /\ \E ok \in BOOLEAN : Record(create_result(EXTRACT_DLL, ok))
    /\ UNCHANGED <<dll_info, urls_found, cnc_url, download_url, analysis_end,
                   threat_level, malware_family, analysis_summary>>
    /\ UNCHANGED fs_vars
    /\ session_unchanged

ExtractDllStep ==
    /\ Iterate(EXTRACT_DLL)
    /\ ExtractDllStep_can_execute
    /\ \E ok \in BOOLEAN :
          /\ Record(create_result(EXTRACT_DLL, ok))
          /\ dll_info' = (dll_info \/ ok)
    /\ UNCHANGED <<urls_found, cnc_url, download_url, analysis_end,
                   threat_level, malware_family, analysis_summary>>
    /\ UNCHANGED fs_vars
    /\ session_unchanged

AnalyzeStringsStep ==
    /\ Iterate(ANALYZE_STRINGS)
    /\ AnalyzeStringsStep_can_execute
    /\ \E ok \in BOOLEAN : Record(create_result(ANALYZE_STRINGS, ok))
    /\ UNCHANGED <<dll_info, urls_found, cnc_url, download_url, analysis_end,
                   threat_level, malware_family, analysis_summary>>
    /\ UNCHANGED fs_vars
    /\ session_unchanged

\* The step fails only when the fallback read of the strings file fails.
AnalyzeUrlsStep ==
    /\ Iterate(ANALYZE_URLS)
    /\ AnalyzeUrlsStep_can_execute
    /\ \E ok \in Outcomes :
          /\ Record(create_result(ANALYZE_URLS, ok))
          /\ IF ok
             THEN \E urls \in SUBSET URLS :
                     /\ urls_found' = urls
                     /\ cnc_url' \in find_cnc_url(urls)
                     /\ download_url' \in find_download_url(urls)
             ELSE UNCHANGED <<urls_found, cnc_url, download_url>>
    /\ UNCHANGED <<dll_info, analysis_end, threat_level, malware_family, analysis_summary>>
    /\ UNCHANGED fs_vars
    /\ session_unchanged

\* A fetch, decode or extraction error fails the step; a decoded archive that
\* was unpacked may have put a *.debug member under the session directory.
ProcessIsoStep ==
    /\ Iterate(PROCESS_ISO)
    /\ ProcessIsoStep_can_execute
    /\ \E ok \in BOOLEAN, dbg \in BOOLEAN :
          /\ Record(create_result(PROCESS_ISO, ok))
          /\ nested_debug' = (nested_debug \/ (ok /\ dbg))
    /\ UNCHANGED <<dll_info, urls_found, cnc_url, download_url, analysis_end,
                   threat_level, malware_family, analysis_summary>>
    /\ UNCHANGED <<dir_exists, manifest_exists, cleaned_lines, debug_marker>>
    /\ session_unchanged

FinalizeStep ==
    /\ Iterate(FINALIZE)
    /\ FinalizeStep_can_execute
    /\ Record(create_result(FINALIZE, TRUE))
    /\ UNCHANGED <<dll_info, urls_found, cnc_url, download_url, analysis_end,
                   threat_level, malware_family, analysis_summary>>
    /\ UNCHANGED fs_vars
    /\ session_unchanged

\* The else branch recording an explicit skipped result.
SkipStep_Recorded ==
    /\ pc = "loop"
    /\ idx <= Len(steps)
    /\ ~can_execute(steps[idx])
    /\ gated' = Append(gated, steps[idx])
    /\ stage_results' = Append(stage_results,
                               [stage |-> steps[idx], status |-> "skipped", success |-> TRUE,
                                error_message |-> None])
    /\ idx' = idx + 1
    /\ pc' = IF idx = Len(steps) THEN "finish" ELSE "loop"
    /\ UNCHANGED <<dll_info, urls_found, cnc_url, download_url, analysis_end,
                   threat_level, malware_family, analysis_summary>>
    /\ UNCHANGED fs_vars
    /\ session_unchanged

\* The else branch of the loop body: "Skipping step", nothing recorded
SkipStep ==
    /\ pc = "loop"
    /\ idx <= Len(steps)
    /\ ~can_execute(steps[idx])
    /\ gated' = Append(gated, steps[idx])
    /\ idx' = idx + 1
    /\ pc' = IF idx = Len(steps) THEN "finish" ELSE "loop"
    /\ UNCHANGED ctx_vars
    /\ UNCHANGED fs_vars
    /\ session_unchanged

\* The threat assessment looking at the URLs alone.
ThreatLevel_UrlsOnly == IF urls_found # {} THEN "high" ELSE "low"

\* AnalysisPipeline._generate_summary, the threat assessment
ThreatLevel ==
    IF dll_info /\ urls_found # {} THEN "high"
    ELSE IF urls_found # {} THEN "medium"
    ELSE "low"

MalwareFamily ==
    IF dll_info /\ urls_found # {} THEN "Grandoreiro"
    ELSE IF urls_found # {} THEN "Suspicious"
    ELSE "Unknown"

\* The finalization placed inside the loop's normal exit only: a break returns
\* the metadata as it is.
FinishExecute_CompletedLoopOnly ==
    /\ pc = "finish"
    /\ IF idx > Len(steps)
       THEN /\ analysis_end' = TRUE
            /\ threat_level' = ThreatLevel
            /\ malware_family' = MalwareFamily
            /\ analysis_summary' = "Analysis completed"
       ELSE UNCHANGED <<analysis_end, threat_level, malware_family, analysis_summary>>
    /\ pc' = IF steps = StandardSteps THEN "save" ELSE "executed"
    /\ UNCHANGED <<idx, gated, stage_results, dll_info, urls_found, cnc_url, download_url>>
    /\ UNCHANGED fs_vars
    /\ session_unchanged

\* After the loop: context.mark_completed(), _generate_summary, return.  The
\* standard pipeline is the one process_sample runs; any other list was run by
\* a direct caller of AnalysisPipeline.execute, where the run ends here.
FinishExecute ==
    /\ pc = "finish"
    /\ analysis_end' = TRUE
    /\ threat_level' = ThreatLevel
    /\ malware_family' = MalwareFamily
    /\ analysis_summary' = "Analysis completed"
    /\ pc' = IF steps = StandardSteps THEN "save" ELSE "executed"
    /\ UNCHANGED <<idx, gated, stage_results, dll_info, urls_found, cnc_url, download_url>>
    /\ UNCHANGED fs_vars
    /\ session_unchanged

\* The engine without its except clause: the step's exception leaves execute.
CallerStepRaises_Propagated ==
    /\ Iterate(CALLER_STEP)
    /\ gated' = Append(gated, CALLER_STEP)
    /\ pc' = "raised"
    /\ UNCHANGED <<idx, stage_results, dll_info, urls_found, cnc_url, download_url,
                   analysis_end, threat_level, malware_family, analysis_summary>>
    /\ UNCHANGED fs_vars
    /\ session_unchanged

\* except Exception in execute: a gate or execute that raised ends the loop;
\* the summary is set to "Pipeline failed: ..." and the metadata is returned
\* without mark_completed and without _generate_summary
CallerStepRaises ==
    /\ Iterate(CALLER_STEP)
    /\ gated' = Append(gated, CALLER_STEP)
    /\ analysis_summary' = "Pipeline failed"
    /\ pc' = "executed"
    /\ UNCHANGED <<idx, stage_results, dll_info, urls_found, cnc_url, download_url,
                   analysis_end, threat_level, malware_family>>
    /\ UNCHANGED fs_vars
    /\ session_unchanged

\* ------------------------------------------------------------------------
\* GrandoreiroProcessor.process_sample after the engine returned

\* save_metadata, generate_report, print: a failed write raises
SaveResults ==
    /\ pc = "save"
    /\ \E ok \in Outcomes : pc' = IF ok THEN "policy" ELSE "handler"
    /\ UNCHANGED <<idx, gated>>
    /\ UNCHANGED ctx_vars
    /\ UNCHANGED fs_vars
    /\ session_unchanged

\* The success test counting a failed process_iso as tolerated.
AllStagesSuccessful_Tolerant ==
    \A i \in 1..Len(stage_results) :
        stage_results[i].success \/ stage_results[i].stage = PROCESS_ISO

\* successful_stages == total_stages
AllStagesSuccessful ==
    \A i \in 1..Len(stage_results) : stage_results[i].success

\* The cleanup policy: keep_temp or a failed stage write the marker, else cleanup
CleanupPolicy ==
    /\ pc = "policy"
    /\ IF ~keep_temp /\ AllStagesSuccessful
       THEN /\ \E fault \in CleanupFaults : cleanup_session_temp_dir(FALSE, fault)
            /\ pc' = "returned"
            /\ UNCHANGED marker_write
       ELSE /\ \E ok \in MarkerOutcomes :
                  /\ create_session_debug_marker(ok)
                  /\ pc' = IF ok THEN "returned" ELSE "handler"
            /\ UNCHANGED cleanup_log
    /\ UNCHANGED <<idx, gated>>
    /\ UNCHANGED ctx_vars
    /\ UNCHANGED <<steps, keep_temp, rm_faults, detail_vars, op_count>>

\* The handler re-raising without the marker.
ExceptionHandler_NoMarker ==
    /\ pc = "handler"
    /\ pc' = "raised"
    /\ UNCHANGED <<idx, gated, marker_write>>
    /\ UNCHANGED ctx_vars
    /\ UNCHANGED fs_vars
    /\ UNCHANGED <<steps, keep_temp, rm_faults, detail_vars, cleanup_log, op_count>>

\* except Exception: try the marker, swallow its failure, re-raise
ExceptionHandler ==
    /\ pc = "handler"
    /\ \E ok \in MarkerOutcomes : create_session_debug_marker(ok)
    /\ pc' = "raised"
    /\ UNCHANGED <<idx, gated>>
    /\ UNCHANGED ctx_vars
    /\ UNCHANGED <<steps, keep_temp, rm_faults, detail_vars, cleanup_log, op_count>>

\* ------------------------------------------------------------------------
\* session_manager.py: the operator's commands on the session of a finished run

RunOver == pc \in {"returned", "raised"}

CommandIssued ==
    /\ RunOver
    /\ op_count < MaxOperatorCommands
    /\ op_count' = op_count + 1
    /\ UNCHANGED <<steps, keep_temp, rm_faults, detail_vars, pc, idx, gated>>
    /\ UNCHANGED ctx_vars

\* list_active_sessions: the session is listed when its directory exists, and
\* has_debug_marker looks at the top-level .debug only
has_debug_marker == debug_marker

\* cleanup_sessions_command(session_ids, force) with session_ids given (by_id)
\* or empty (every listed session without a marker, or every one under force)
cleanup_sessions_command ==
    /\ CommandIssued
    /\ \E by_id \in BOOLEAN, force \in BOOLEAN :
          IF by_id \/ (dir_exists /\ (~has_debug_marker \/ force))
          THEN \E fault \in CleanupFaults : cleanup_session_temp_dir(force, fault)
          ELSE UNCHANGED fs_vars /\ UNCHANGED cleanup_log
    /\ UNCHANGED marker_write

\* debug_session_command: a failed marker write prints the error and exits
debug_session_command ==
    /\ CommandIssued
    /\ \E ok \in MarkerOutcomes : create_session_debug_marker(ok)
    /\ UNCHANGED cleanup_log

\* ------------------------------------------------------------------------
\* ProcessIsoStep.execute in detail, for two runs that found the same download
\* URL: the cache test, the fetch, the copies into and out of the cache, the
\* decode and the files written under config.output_dir

\* What the server may answer for the URL, as the blocks that one write of
\* shutil.copy2's copy loop transfers; two fetches may get different answers
Bodies == {<<"a1", "a2">>, <<"b1", "b2">>, <<"c1">>}

\* A block of a file that was never written
Hole == "hole"

SessionIds == {"session_1", "session_2"}

Samples == {"invoice.zip", "factura.zip"}

\* The directories a file can be written under
SessionDir(id) == [root |-> "temp", session |-> id]
CacheDir == [root |-> "cache", session |-> None]
OutputDir == [root |-> "output", session |-> None]

\* grindoreiro.log in the current directory, where setup_logging (called by
\* the command line entry point) sends every log line of the process
LogFile == [root |-> "cwd", session |-> None]

Active(r) == run[r].pc \notin {"idle", "done"}

\* A session id that is the same for every run.
generate_session_id_Constant == {"session_1"}

\* uuid4().hex[:16], taken as never repeating a value
generate_session_id == SessionIds \ {run[r].session_id : r \in Runs}

\* Working files under one directory common to all runs.
work_dir_Shared(r) == SessionDir("processing")

\* The directory a step's working files are written under
work_dir(r) == SessionDir(run[r].session_id)

\* file.write(block) at block offset k of an open file whose content is f
WriteBlock(f, k, block) ==
    IF k <= Len(f)
    THEN [f EXCEPT ![k] = block]
    ELSE f \o [i \in 1..(k - 1 - Len(f)) |-> Hole] \o <<block>>

\* PipelineContext.__init__: a new session id and its directory with the manifest
StartRun(r) ==
    /\ run[r].pc = "idle"
    /\ \E id \in generate_session_id, name \in Samples, log_to_file \in BOOLEAN :
          run' = [run EXCEPT ![r] = [@ EXCEPT !.pc = "check", !.session_id = id,
                                               !.seq = Cardinality({o \in Runs : run[o].pc # "idle"}) + 1,
                                               !.sample = name,
                                               !.written = {SessionDir(id)} \cup
                                                   (IF log_to_file THEN {LogFile} ELSE {})]]
    /\ overlap' = (overlap \/ \E o \in Runs \ {r} : Active(o))
    /\ UNCHANGED <<cache, output_files, ended>>
    /\ UNCHANGED <<pipeline_vars, analyzer_vars, tool_vars>>

\* The cache test answering "no entry" whatever the cache holds.
CheckCache_AlwaysMiss(r) ==
    /\ run[r].pc = "check"
    /\ run' = [run EXCEPT ![r] = [@ EXCEPT !.path = "miss", !.pc = "download"]]
    /\ UNCHANGED <<cache, output_files, ended, overlap>>
    /\ UNCHANGED <<pipeline_vars, analyzer_vars, tool_vars>>

\* The cache test taking an entry only when no run is writing it.
CheckCache_UnlessBeingWritten(r) ==
    /\ run[r].pc = "check"
    /\ LET hit == cache # Absent /\ \A o \in Runs : run[o].pc # "write_cache"
       IN  run' = [run EXCEPT ![r] =
                     [@ EXCEPT !.path = IF hit THEN "hit" ELSE "miss",
                               !.pc = IF hit THEN "copy_from_cache" ELSE "download"]]
    /\ UNCHANGED <<cache, output_files, ended, overlap>>
    /\ UNCHANGED <<pipeline_vars, analyzer_vars, tool_vars>>

\* if cached_iso.exists()
CheckCache(r) ==
    /\ run[r].pc = "check"
    /\ run' = [run EXCEPT ![r] =
                 [@ EXCEPT !.path = IF cache # Absent THEN "hit" ELSE "miss",
                           !.pc = IF cache # Absent THEN "copy_from_cache" ELSE "download"]]
    /\ UNCHANGED <<cache, output_files, ended, overlap>>
    /\ UNCHANGED <<pipeline_vars, analyzer_vars, tool_vars>>

\* iso_downloader.download_iso: one requests.get; the answer is written to the
\* step's iso directory, a failed request raises and fails the step
download_iso(r) ==
    /\ run[r].pc = "download"
    /\ \E ok \in BOOLEAN :
          IF ok
          THEN \E body \in Bodies :
                  run' = [run EXCEPT ![r] = [@ EXCEPT !.fetched = TRUE, !.iso = body,
                                                       !.pc = "copy_to_cache",
                                                       !.written = @ \cup {work_dir(r)}]]
          ELSE run' = [run EXCEPT ![r] = [@ EXCEPT !.fetched = TRUE, !.pc = "save"]]
    /\ UNCHANGED <<cache, output_files, ended, overlap>>
    /\ UNCHANGED <<pipeline_vars, analyzer_vars, tool_vars>>

\* extractor.copy_file(iso_path, cached_iso), shutil.copy2 opening the
\* destination: the cache entry is created or truncated in place
copy_to_cache_open(r) ==
    /\ run[r].pc = "copy_to_cache"
    /\ \E ok \in BOOLEAN :
          IF ok
          THEN /\ cache' = <<>>
               /\ run' = [run EXCEPT ![r] = [@ EXCEPT !.pc = "write_cache", !.off = 0,
                                                        !.written = @ \cup {CacheDir}]]
          ELSE /\ run' = [run EXCEPT ![r] = [@ EXCEPT !.pc = "save"]]
               /\ UNCHANGED cache
    /\ UNCHANGED <<output_files, ended, overlap>>
    /\ UNCHANGED <<pipeline_vars, analyzer_vars, tool_vars>>

\* ... and its copy loop: one block per write at the writer's own offset; the
\* copy is complete after the last block, a failed write raises and leaves
\* what was written
copy_to_cache_block(r) ==
    /\ run[r].pc = "write_cache"
    /\ \E ok \in BOOLEAN :
          IF ok
          THEN /\ cache' = WriteBlock(cache, run[r].off + 1, run[r].iso[run[r].off + 1])
               /\ IF run[r].off + 1 = Len(run[r].iso)
                  THEN /\ run' = [run EXCEPT ![r] = [@ EXCEPT !.pc = "decode", !.off = @ + 1]]
                       /\ ended' = Append(ended, r)
                  ELSE /\ run' = [run EXCEPT ![r] = [@ EXCEPT !.off = @ + 1]]
                       /\ UNCHANGED ended
          ELSE /\ run' = [run EXCEPT ![r] = [@ EXCEPT !.pc = "save"]]
               /\ UNCHANGED <<cache, ended>>
    /\ UNCHANGED <<output_files, overlap>>
    /\ UNCHANGED <<pipeline_vars, analyzer_vars, tool_vars>>

\* extractor.copy_file(cached_iso, work_iso_path) opening its destination in
\* the step's iso directory
copy_from_cache_open(r) ==
    /\ run[r].pc = "copy_from_cache"
    /\ \E ok \in BOOLEAN :
          run' = [run EXCEPT ![r] =
                    IF ok
                    THEN [@ EXCEPT !.pc = "read_cache", !.iso = <<>>, !.off = 0,
                                   !.written = @ \cup {work_dir(r)}]
                    ELSE [@ EXCEPT !.pc = "save"]]
    /\ UNCHANGED <<cache, output_files, ended, overlap>>
    /\ UNCHANGED <<pipeline_vars, analyzer_vars, tool_vars>>

\* ... and its copy loop reading the entry as it is at each read, up to the
\* end of the file
copy_from_cache_block(r) ==
    /\ run[r].pc = "read_cache"
    /\ run' = [run EXCEPT ![r] =
                 IF run[r].off < Len(cache)
                 THEN [@ EXCEPT !.iso = Append(@, cache[run[r].off + 1]), !.off = @ + 1]
                 ELSE [@ EXCEPT !.pc = "decode"]]
    /\ UNCHANGED <<cache, output_files, ended, overlap>>
    /\ UNCHANGED <<pipeline_vars, analyzer_vars, tool_vars>>

\* The bodies the two base64 passes of decode_iso accept: the server's
\* one-block answer is not a twice-encoded archive, and neither is a body cut
\* short or mixed from two answers
Decodable == {<<"a1", "a2">>, <<"b1", "b2">>}

\* The step dropping the cache entry when the artifact does not decode.
decode_and_extract_Evicting(r) ==
    /\ run[r].pc = "decode"
    /\ \E extracted \in BOOLEAN, exe \in BOOLEAN :
          LET ok == run[r].iso \in Decodable /\ extracted
          IN  /\ run' = [run EXCEPT ![r] =
                           [@ EXCEPT !.pc = "save", !.iso_ok = ok,
                                     !.decoded = IF run[r].iso \in Decodable
                                                 THEN "returned" ELSE "raised",
                                     !.written = @ \cup {work_dir(r)}
                                                   \cup (IF ok /\ exe THEN {OutputDir} ELSE {})]]
              /\ output_files' = IF ok /\ exe
                                 THEN ("payload.exe" :> r) @@ output_files
                                 ELSE output_files
              /\ cache' = IF run[r].iso \in Decodable THEN cache ELSE Absent
    /\ UNCHANGED <<ended, overlap>>
    /\ UNCHANGED <<pipeline_vars, analyzer_vars, tool_vars>>

\* decode_iso, which returns or raises by the content of the file alone, then
\* extract_zip and the copy of the first executable found to
\* config.output_dir / exe_file.name; any failure fails the step, and the run
\* goes on to its results either way (process_iso is tolerated)
decode_and_extract(r) ==
    /\ run[r].pc = "decode"
    /\ \E extracted \in BOOLEAN, exe \in BOOLEAN :
          LET ok == run[r].iso \in Decodable /\ extracted
          IN  /\ run' = [run EXCEPT ![r] =
                           [@ EXCEPT !.pc = "save", !.iso_ok = ok,
                                     !.decoded = IF run[r].iso \in Decodable
                                                 THEN "returned" ELSE "raised",
                                     !.written = @ \cup {work_dir(r)}
                                                   \cup (IF ok /\ exe THEN {OutputDir} ELSE {})]]
              /\ output_files' = IF ok /\ exe
                                 THEN ("payload.exe" :> r) @@ output_files
                                 ELSE output_files
    /\ UNCHANGED <<cache, ended, overlap>>
    /\ UNCHANGED <<pipeline_vars, analyzer_vars, tool_vars>>

\* results_manager.save_metadata: output_dir / "{sample_name}_analysis.json"
save_metadata(r) ==
    /\ run[r].pc = "save"
    /\ run' = [run EXCEPT ![r] = [@ EXCEPT !.pc = "done", !.written = @ \cup {OutputDir}]]
    /\ output_files' = (run[r].sample :> r) @@ output_files
    /\ UNCHANGED <<cache, ended, overlap>>
    /\ UNCHANGED <<pipeline_vars, analyzer_vars, tool_vars>>

NextTwoRuns ==
    \E r \in Runs :
        \/ StartRun(r)
        \/ CheckCache(r)
        \/ download_iso(r)
        \/ copy_to_cache_open(r)
        \/ copy_to_cache_block(r)
        \/ copy_from_cache_open(r)
        \/ copy_from_cache_block(r)
        \/ decode_and_extract(r)
        \/ save_metadata(r)

InitTwoRuns ==
    /\ steps = StandardSteps /\ InitRun /\ ~keep_temp /\ ~rm_faults
    /\ CacheIdle /\ AnalyzerIdle /\ ToolsIdle

SpecTwoRuns == InitTwoRuns /\ [][NextTwoRuns]_vars

\* ------------------------------------------------------------------------
\* analyzer.py: StringExtractor.extract_strings as a function of the file's bytes

\* Longest file explored
MaxDataLen == 8

\* StringExtractor(min_length): the shortest run the patterns match
min_length == 2

\* Byte values: a letter and the space of the scanner's character class, a
\* line feed (outside the class) and the zero byte
Bytes == {"a", " ", "LF", "NUL"}

\* ascii_chars / unicode_chars, the character class of both patterns
ascii_chars == {"a", " "}

\* The characters str.strip() removes, of those the class holds
Whitespace == {" "}

Files == UNION {[1..n -> Bytes] : n \in 0..MaxDataLen}

\* Last index of the run of class characters that starts at s[i]
RunEnd(s, i) ==
    CHOOSE j \in i..Len(s) :
        /\ \A k \in i..j : s[k] \in ascii_chars
        /\ j = Len(s) \/ s[j + 1] \notin ascii_chars

\* pattern.findall(s) from position i for the pattern [class]{min_length,}:
\* leftmost, greedy, non-overlapping
RECURSIVE findall(_, _)
findall(s, i) ==
    IF i > Len(s) THEN <<>>
    ELSE IF s[i] \notin ascii_chars THEN findall(s, i + 1)
    ELSE LET j == RunEnd(s, i)
         IN  (IF j - i + 1 >= min_length THEN <<SubSeq(s, i, j)>> ELSE <<>>)
                 \o findall(s, j + 1)

\* str.strip()
strip(s) ==
    LET kept == {k \in 1..Len(s) : s[k] \notin Whitespace}
    IN  IF kept = {} THEN <<>>
        ELSE SubSeq(s, CHOOSE k \in kept : \A m \in kept : k <= m,
                       CHOOSE k \in kept : \A m \in kept : k >= m)

\* The loop over the matches: strip each, keep the non-empty ones
StrippedMatches(s) ==
    LET matches == findall(s, 1)
    IN  SelectSeq([k \in 1..Len(matches) |-> strip(matches[k])],
                  LAMBDA m : m # <<>>)

\* data.decode('utf-16', errors='ignore') without a byte order mark: each pair
\* (low, high) is one character, the low byte's when the high byte is zero and
\* a character outside the class otherwise; an odd last byte is dropped
decode_utf16(d) ==
    [k \in 1..(Len(d) \div 2) |-> IF d[2 * k] = "NUL" THEN d[2 * k - 1] ELSE "?"]

AsciiStrings(d) == StrippedMatches(d)

Utf16Strings(d) == StrippedMatches(decode_utf16(d))

\* list(dict.fromkeys(l)) keeping the last occurrence of each string.
RECURSIVE fromkeys_KeepLast(_)
fromkeys_KeepLast(l) ==
    IF l = <<>> THEN <<>>
    ELSE IF \E k \in 2..Len(l) : l[k] = Head(l)
         THEN fromkeys_KeepLast(Tail(l))
         ELSE <<Head(l)>> \o fromkeys_KeepLast(Tail(l))

\* list(dict.fromkeys(l)): the first occurrence of each string, in order
RECURSIVE fromkeys(_)
fromkeys(l) ==
    IF l = <<>> THEN <<>>
    ELSE LET front == fromkeys(SubSeq(l, 1, Len(l) - 1))
         IN  IF \E k \in 1..Len(front) : front[k] = l[Len(l)]
             THEN front
             ELSE Append(front, l[Len(l)])

extract_strings(d) == fromkeys(AsciiStrings(d) \o Utf16Strings(d))

\* One call of extract_strings on the file
ScanFile ==
    /\ an_pc = "ready"
    /\ strings' = extract_strings(data)
    /\ an_pc' = "done"
    /\ UNCHANGED <<data, text, url_set>>
    /\ UNCHANGED <<pipeline_vars, cache_vars, tool_vars>>

InitScanner ==
    /\ steps = StandardSteps /\ InitRun /\ ~keep_temp /\ ~rm_faults
    /\ CacheIdle /\ ToolsIdle
    /\ data \in Files
    /\ strings = <<>>
    /\ text = <<>>
    /\ url_set = {}
    /\ an_pc = "ready"

NextScanner == ScanFile

SpecScanner == InitScanner /\ [][NextScanner]_vars

\* ------------------------------------------------------------------------
\* analyzer.py: URLAnalyzer.find_urls as a function of the strings it is given

\* Longest input explored, in symbols, line ends included
MaxTextLen == 6

\* The two literal prefixes of the patterns.  No occurrence of one overlaps an
\* occurrence of itself or of the other, so each is one symbol of the input.
HTTP == "http://"
HTTPS == "https://"

\* Symbols of the input: the prefixes, any other non-whitespace character, a
\* space, and the end of a string of the list
Symbols == {HTTP, HTTPS, "x", " ", "LF"}

\* The characters \s matches, of those a string holds
Spaces == {" "}

\* The list of strings a sequence of symbols stands for, split at the line ends
RECURSIVE SplitLines(_)
SplitLines(t) ==
    IF \A k \in 1..Len(t) : t[k] # "LF" THEN <<t>>
    ELSE LET n == CHOOSE k \in 1..Len(t) : t[k] = "LF" /\ \A m \in 1..(k - 1) : t[m] # "LF"
         IN  <<SubSeq(t, 1, n - 1)>> \o SplitLines(SubSeq(t, n + 1, Len(t)))

StringLists == {SplitLines(t) : t \in UNION {[1..n -> Symbols] : n \in 0..MaxTextLen}}

\* Last index of the run of non-whitespace characters that holds s[i]
WordEnd(s, i) ==
    CHOOSE j \in i..Len(s) :
        /\ \A k \in i..j : s[k] \notin Spaces
        /\ j = Len(s) \/ s[j + 1] \in Spaces

\* pattern.findall(s) keeping also the matches that begin inside a match.
RECURSIVE url_findall_Overlapping(_, _, _)
url_findall_Overlapping(s, i, scheme) ==
    IF i > Len(s) THEN {}
    ELSE IF s[i] = scheme /\ i < Len(s) /\ s[i + 1] \notin Spaces
         THEN {SubSeq(s, i, WordEnd(s, i))} \cup url_findall_Overlapping(s, i + 1, scheme)
         ELSE url_findall_Overlapping(s, i + 1, scheme)

\* pattern.findall(s) from position i for the pattern scheme[^\s]+ : a match
\* needs one character after the prefix, runs to the next whitespace, and the
\* scan resumes after the match
RECURSIVE url_findall(_, _, _)
url_findall(s, i, scheme) ==
    IF i > Len(s) THEN {}
    ELSE IF s[i] = scheme /\ i < Len(s) /\ s[i + 1] \notin Spaces
         THEN LET j == WordEnd(s, i)
              IN  {SubSeq(s, i, j)} \cup url_findall(s, j + 1, scheme)
         ELSE url_findall(s, i + 1, scheme)

\* urls.update(http matches); urls.update(https matches), for every string
find_urls(strs) ==
    UNION {url_findall(strs[k], 1, HTTP) \cup url_findall(strs[k], 1, HTTPS) :
              k \in 1..Len(strs)}

\* One call of find_urls on the list
FindUrls ==
    /\ an_pc = "ready"
    /\ url_set' = find_urls(text)
    /\ an_pc' = "done"
    /\ UNCHANGED <<data, strings, text>>
    /\ UNCHANGED <<pipeline_vars, cache_vars, tool_vars>>

InitUrls ==
    /\ steps = StandardSteps /\ InitRun /\ ~keep_temp /\ ~rm_faults
    /\ CacheIdle /\ ToolsIdle
    /\ data = <<>>
    /\ strings = <<>>
    /\ text \in StringLists
    /\ url_set = {}
    /\ an_pc = "ready"

NextUrls == FindUrls

SpecUrls == InitUrls /\ [][NextUrls]_vars

\* ------------------------------------------------------------------------
\* analyzer.py: URLAnalyzer.find_cnc_url and find_download_url as functions of
\* the set they are given

\* Longest URL explored, in symbols
MaxUrlLen == 3

\* Symbols of the URLs explored: the first pattern in both spellings, and
\* letters of the second pattern in either case
UrlSymbols == {"5050/index.php", "5050/INDEX.PHP", "i", "S", "o"}

UrlTexts == UNION {[1..n -> UrlSymbols] : n \in 0..MaxUrlLen}

\* The sets given to the lookups: the empty set and every set of one or two URLs
UrlSets == {{}} \cup {{a, b} : a, b \in UrlTexts}

\* "if cnc_url:" / "if download_url:"
IsTruthy(url) == url # NoUrl /\ url # <<>>

\* AnalyzeUrlsStep.execute applying the two lookups to the set and keeping in
\* the metadata what each returned
ClassifyUrls ==
    /\ an_pc = "ready"
    /\ \E c \in find_cnc_url(url_set), d \in find_download_url(url_set) :
          /\ cnc_url' = IF IsTruthy(c) THEN c ELSE cnc_url
          /\ download_url' = IF IsTruthy(d) THEN d ELSE download_url
    /\ an_pc' = "done"
    /\ UNCHANGED <<data, strings, text, url_set>>
    /\ UNCHANGED <<steps, keep_temp, rm_faults, pc, idx, gated, stage_results, dll_info,
                   urls_found, analysis_end, threat_level, malware_family,
                   analysis_summary, marker_write, cleanup_log, op_count>>
    /\ UNCHANGED fs_vars
    /\ UNCHANGED <<cache_vars, tool_vars>>

InitLookup ==
    /\ steps = StandardSteps /\ InitRun /\ ~keep_temp /\ ~rm_faults
    /\ CacheIdle /\ ToolsIdle
    /\ data = <<>>
    /\ strings = <<>>
    /\ text = <<>>
    /\ url_set \in UrlSets
    /\ an_pc = "ready"

NextLookup == ClassifyUrls

SpecLookup == InitLookup /\ [][NextLookup]_vars

\* ------------------------------------------------------------------------
\* AnalyzeUrlsStep.execute of two runs (two processes) over the same strings:
\* find_urls gives both the same set; each lookup returns the first match
\* of its own iteration over the set, in the order of that process

RecordUrls(r) ==
    /\ ~url_records[r].done
    /\ \E c \in find_cnc_url(url_set), d \in find_download_url(url_set) :
          url_records' = [url_records EXCEPT ![r] =
                            [done         |-> TRUE,
                             cnc_url      |-> IF IsTruthy(c) THEN c ELSE NoUrl,
                             download_url |-> IF IsTruthy(d) THEN d ELSE NoUrl]]
    /\ UNCHANGED <<pipeline_vars, cache_vars, analyzer_vars, decoder_vars, selector_vars,
                   cache_path_vars, installer_vars, cache_dir_vars>>

InitTwoLookups ==
    /\ steps = StandardSteps /\ InitRun /\ ~keep_temp /\ ~rm_faults
    /\ CacheIdle /\ ToolsIdle
    /\ data = <<>>
    /\ strings = <<>>
    /\ text = <<>>
    /\ url_set \in UrlSets
    /\ an_pc = "ready"

NextTwoLookups == \E r \in Runs : RecordUrls(r)

SpecTwoLookups == InitTwoLookups /\ [][NextTwoLookups]_vars

\* ------------------------------------------------------------------------
\* iso_handler.py: ISODownloader.decode_iso as a function of the fetched file.
\* Bytes and characters are their codes; the file is read as text and holds
\* ASCII characters only.

\* Longest payload explored, in bytes
MaxPayloadLen == 3

\* Byte values of the payloads: zero, a letter of the base64 alphabet ("M"),
\* and two high values
ByteValues == {0, 77, 250, 255}

Payloads == UNION {[1..n -> ByteValues] : n \in 0..MaxPayloadLen}

\* "="
PAD == 61

\* The character of the base64 alphabet with value k: A-Z, a-z, 0-9, +, /
b64char(k) ==
    IF k < 26 THEN 65 + k
    ELSE IF k < 52 THEN 71 + k
    ELSE IF k < 62 THEN k - 4
    ELSE IF k = 62 THEN 43
    ELSE 47

\* The decoder's table: the value of a character, 64 for one outside the alphabet
b64value(c) ==
    IF c \in 65..90 THEN c - 65
    ELSE IF c \in 97..122 THEN c - 71
    ELSE IF c \in 48..57 THEN c + 4
    ELSE IF c = 43 THEN 62
    ELSE IF c = 47 THEN 63
    ELSE 64

\* base64.b64encode: three bytes give four characters, a last group of one or
\* two bytes is padded
RECURSIVE b64encode(_)
b64encode(b) ==
    IF Len(b) = 0 THEN <<>>
    ELSE IF Len(b) = 1
    THEN <<b64char(b[1] \div 4), b64char((b[1] % 4) * 16), PAD, PAD>>
    ELSE IF Len(b) = 2
    THEN <<b64char(b[1] \div 4), b64char((b[1] % 4) * 16 + (b[2] \div 16)),
           b64char((b[2] % 16) * 4), PAD>>
    ELSE <<b64char(b[1] \div 4), b64char((b[1] % 4) * 16 + (b[2] \div 16)),
           b64char((b[2] % 16) * 4 + (b[3] \div 64)), b64char(b[3] % 64)>>
             \o b64encode(SubSeq(b, 4, Len(b)))

\* The decoder's loop from character i: quad_pos characters of the current
\* group were read, leftchar holds the bits not yet written, pads counts the
\* padding characters seen after quad_pos >= 2.  A character outside the
\* alphabet is skipped, complete padding ends the input, and an input that
\* ends inside a group is an error.
RECURSIVE a2b_base64(_, _, _, _, _, _)
a2b_base64(s, i, quad_pos, leftchar, pads, out) ==
    IF i > Len(s) THEN [ok |-> quad_pos = 0, bytes |-> out]
    ELSE IF s[i] = PAD
    THEN IF quad_pos >= 2 /\ quad_pos + pads + 1 >= 4
         THEN [ok |-> TRUE, bytes |-> out]
         ELSE a2b_base64(s, i + 1, quad_pos, leftchar,
                         IF quad_pos >= 2 THEN pads + 1 ELSE pads, out)
    ELSE IF b64value(s[i]) = 64
    THEN a2b_base64(s, i + 1, quad_pos, leftchar, pads, out)
    ELSE LET v == b64value(s[i])
         IN  CASE quad_pos = 0 -> a2b_base64(s, i + 1, 1, v, 0, out)
               [] quad_pos = 1 ->
                    a2b_base64(s, i + 1, 2, v % 16, 0, Append(out, leftchar * 4 + (v \div 16)))
               [] quad_pos = 2 ->
                    a2b_base64(s, i + 1, 3, v % 4, 0, Append(out, leftchar * 16 + (v \div 4)))
               [] quad_pos = 3 ->
                    a2b_base64(s, i + 1, 0, 0, 0, Append(out, leftchar * 64 + v))

\* The decoder writing a whole group only.
b64decode_WholeGroups(s) ==
    LET r == a2b_base64(s, 1, 0, 0, 0, <<>>)
    IN  [ok |-> r.ok, bytes |-> SubSeq(r.bytes, 1, 3 * (Len(r.bytes) \div 3))]

\* base64.b64decode(s) of a bytes object, validate = False
b64decode(s) == a2b_base64(s, 1, 0, 0, 0, <<>>)

\* base64.b64decode(s) of a str: a text with a character that is not ASCII is
\* refused, any other is decoded as its bytes
b64decode_str(s) ==
    IF \E k \in 1..Len(s) : s[k] > 127 THEN [ok |-> FALSE, bytes |-> <<>>]
    ELSE b64decode(s)

\* The name download_iso gave the fetched file
ISO_NAME == "payload.iso"

\* What the server made of the payload: the payload encoded twice, that text
\* cut short by one character, or the payload encoded once only
Answers(b) ==
    LET twice == b64encode(b64encode(b))
    IN  {twice, SubSeq(twice, 1, Len(twice) - 1), b64encode(b)}

\* decode_iso(iso_path, output_dir): read, decode, write encoded.b64, decode
\* again, write decoded.zip; an error of either pass is logged and raised
decode_iso ==
    /\ decode_pc = "ready"
    /\ LET decoded1 == b64decode_str(iso_dir[ISO_NAME])
           decoded2 == b64decode(decoded1.bytes)
       IN  IF ~decoded1.ok
           THEN /\ decode_pc' = "raised"
                /\ UNCHANGED iso_dir
           ELSE IF ~decoded2.ok
           THEN /\ decode_pc' = "raised"
                /\ iso_dir' = ("encoded.b64" :> decoded1.bytes) @@ iso_dir
           ELSE /\ decode_pc' = "returned"
                /\ iso_dir' = ("decoded.zip" :> decoded2.bytes) @@
                                  ("encoded.b64" :> decoded1.bytes) @@ iso_dir
    /\ UNCHANGED payload
    /\ UNCHANGED <<pipeline_vars, cache_vars, analyzer_vars, selector_vars, cache_path_vars,
                   installer_vars, cache_dir_vars, lookup_vars>>

InitDecoder ==
    /\ steps = StandardSteps /\ InitRun /\ ~keep_temp /\ ~rm_faults
    /\ CacheIdle /\ AnalyzerIdle /\ SelectorIdle /\ CachePathIdle /\ InstallerIdle /\ CacheDirIdle
    /\ LookupIdle
    /\ payload \in Payloads
    /\ \E answer \in Answers(payload) : iso_dir = (ISO_NAME :> answer)
    /\ decode_pc = "ready"

NextDecoder == decode_iso

SpecDecoder == InitDecoder /\ [][NextDecoder]_vars

\* ------------------------------------------------------------------------
\* extractor.py: FileExtractor.find_dll_files as a function of the installer
\* script and of the files the installer tool extracted.  The script is read
\* without error.

\* Most CustomAction tags in the scripts explored
MaxActions == 2

\* The entry point the pattern looks for
SIGNATURE == "VIPS0033939"

\* DllEntry values of a tag: the signature, its lower-case spelling, another
EntryPoints == {"VIPS0033939", "vips0033939", "Other"}

\* File names, as stem and extension
K_NAME == [stem |-> "K", ext |-> ""]
BENIGN_NAME == [stem |-> "benign", ext |-> "dll"]
AICUSTACT_NAME == [stem |-> "AICustAct", ext |-> "dll"]

FileNames == {K_NAME, BENIGN_NAME, AICUSTACT_NAME}

\* str.lower() of a file name
lower_name(name) ==
    [stem |-> IF name.stem = "AICustAct" THEN "aicustact"
              ELSE IF name.stem = "K" THEN "k"
              ELSE name.stem,
     ext |-> name.ext]

\* A CustomAction tag: its BinaryKey and DllEntry attributes, and which of
\* the two the tag gives first
Tags == [key : FileNames, entry : EntryPoints, key_first : BOOLEAN]

Scripts == UNION {[1..n -> Tags] : n \in 0..MaxActions}

\* The files of the output directory: the binary resources under Binary/ by
\* their keys, and a library installed elsewhere
BinaryPath(key) == [dir |-> "Binary", name |-> key]

Paths == {BinaryPath(n) : n \in FileNames} \cup {[dir |-> "File", name |-> BENIGN_NAME]}

\* re.IGNORECASE on the characters of the entry point's name
SameIgnoringCase(a, b) ==
    \/ a = b
    \/ {a, b} = {"VIPS0033939", "vips0033939"}

\* re.findall(<CustomAction[^>]*BinaryKey="([^"]+)"[^>]*DllEntry="VIPS0033939",
\* content, re.IGNORECASE): the keys of the tags that give BinaryKey and, after
\* it, a DllEntry spelled as the signature in either case
custom_actions(script) ==
    {script[k].key : k \in {i \in 1..Len(script) :
                                /\ script[i].key_first
                                /\ SameIgnoringCase(script[i].entry, SIGNATURE)}}

\* binary_key.lower() not in ['aicustact.dll']
malicious_binary_keys(script) ==
    {key \in custom_actions(script) : lower_name(key) # lower_name(AICUSTACT_NAME)}

\* The keys whose file directory/Binary/key exists
signature_files(script, files) ==
    {BinaryPath(key) : key \in malicious_binary_keys(script)} \cap files

\* find_files_by_extension(directory, "dll"): directory.rglob("*.dll")
find_files_by_extension(files, extension) == {f \in files : f.name.ext = extension}

\* pattern.lower() in dll.name.lower()
NameHolds(pattern, name) == lower_name(name).stem = pattern

\* The selection with the legacy search added to the signature's files.
find_dll_files_AlwaysFallback(script, files, exclude) ==
    LET found == signature_files(script, files) \cup find_files_by_extension(files, "dll")
    IN  {f \in found : \A pattern \in exclude : ~NameHolds(pattern, f.name)}

\* find_dll_files(directory, exclude_patterns), as the set of the list returned
find_dll_files(script, files, exclude) ==
    LET found == IF signature_files(script, files) # {}
                 THEN signature_files(script, files)
                 ELSE find_files_by_extension(files, "dll")
    IN  {f \in found : \A pattern \in exclude : ~NameHolds(pattern, f.name)}

\* One call of find_dll_files
FindDllFiles ==
    /\ select_pc = "ready"
    /\ dll_files' = find_dll_files(wxs, msi_output, exclude_patterns)
    /\ select_pc' = IF signature_files(wxs, msi_output) # {} THEN "signature" ELSE "fallback"
    /\ UNCHANGED <<wxs, msi_output, exclude_patterns>>
    /\ UNCHANGED <<pipeline_vars, cache_vars, analyzer_vars, decoder_vars, cache_path_vars,
                   installer_vars, cache_dir_vars, lookup_vars>>

InitSelector ==
    /\ steps = StandardSteps /\ InitRun /\ ~keep_temp /\ ~rm_faults
    /\ CacheIdle /\ AnalyzerIdle /\ DecoderIdle /\ CachePathIdle /\ InstallerIdle /\ CacheDirIdle
    /\ LookupIdle
    /\ wxs \in Scripts
    /\ msi_output \in SUBSET Paths
    /\ exclude_patterns \in {{}, {"aicustact"}}
    /\ dll_files = {}
    /\ select_pc = "ready"

NextSelector == FindDllFiles

SpecSelector == InitSelector /\ [][NextSelector]_vars

\* ------------------------------------------------------------------------
\* core.py: get_cache_path as a function of the URL, called once by each of
\* two runs

\* Longest URL given to get_cache_path, in characters
MaxCacheUrlLen == 3

\* The length safe_name is cut to: 100 in the source, scaled to the URLs explored
SAFE_NAME_LEN == 2

\* Characters of a URL: a letter or digit, the hyphen, the dot, and a
\* character of no class of the pattern (":" or "/")
UrlChars == {"a", "-", ".", "/"}

CacheUrls == UNION {[1..n -> UrlChars] : n \in 0..MaxCacheUrlLen}

\* \w: letters, digits and the underscore
IsWordChar(c) == c \in {"a", "_"}

\* The class [\w\-_\.] whose complement the pattern replaces
IsKept(c) == IsWordChar(c) \/ c \in {"-", "_", "."}

\* re.sub(r'[^\w\-_\.]', '_', url)
sanitize(url) == [k \in 1..Len(url) |-> IF IsKept(url[k]) THEN url[k] ELSE "_"]

\* The name without the cut.
safe_name_Uncut(url) == sanitize(url)

\* safe_name, cut to its first SAFE_NAME_LEN characters when longer
safe_name(url) ==
    IF Len(sanitize(url)) > SAFE_NAME_LEN
    THEN SubSeq(sanitize(url), 1, SAFE_NAME_LEN)
    ELSE sanitize(url)

\* A cache file named by the URL itself.
get_cache_path_FullUrl(url) == [dir |-> "cache", name |-> url]

\* get_cache_path(url) == config.cache_dir / safe_name
get_cache_path(url) == [dir |-> "cache", name |-> safe_name(url)]

\* The call made by run r
ResolveCachePath(r) ==
    /\ cache_paths[r] = NoPath
    /\ cache_paths' = [cache_paths EXCEPT ![r] = get_cache_path(cache_urls[r])]
    /\ UNCHANGED cache_urls
    /\ UNCHANGED <<pipeline_vars, cache_vars, analyzer_vars, decoder_vars, selector_vars,
                   installer_vars, cache_dir_vars, lookup_vars>>

InitCachePath ==
    /\ steps = StandardSteps /\ InitRun /\ ~keep_temp /\ ~rm_faults
    /\ CacheIdle /\ AnalyzerIdle /\ DecoderIdle /\ SelectorIdle /\ InstallerIdle /\ CacheDirIdle
    /\ LookupIdle
    /\ cache_urls \in [Runs -> CacheUrls]
    /\ cache_paths = [r \in Runs |-> NoPath]

NextCachePath == \E r \in Runs : ResolveCachePath(r)

SpecCachePath == InitCachePath /\ [][NextCachePath]_vars

\* ------------------------------------------------------------------------
\* ProcessIsoStep.execute of two successive runs, each with its download URL,
\* on the shared cache directory

\* cached_iso = get_cache_path(download_url); an existing file is copied to
\* the run's iso directory as it is, else the URL is fetched (a failed request
\* fails the step) and the file fetched is copied into the cache
FetchOrServe(r) ==
    /\ cache_urls[r] # <<>>
    /\ artifact[r] = NoArtifact
    /\ LET cached_iso == get_cache_path(cache_urls[r])
       IN  /\ cache_paths' = [cache_paths EXCEPT ![r] = cached_iso]
           /\ IF cached_iso.name \in DOMAIN cache_store
              THEN /\ artifact' = [artifact EXCEPT ![r] =
                                     [from |-> "cache", origin |-> cache_store[cached_iso.name]]]
                   /\ UNCHANGED cache_store
              ELSE \E ok \in BOOLEAN :
                      IF ok
                      THEN /\ artifact' = [artifact EXCEPT ![r] =
                                             [from |-> "network", origin |-> cache_urls[r]]]
                           /\ cache_store' = (cached_iso.name :> cache_urls[r]) @@ cache_store
                      ELSE /\ artifact' = [artifact EXCEPT ![r] =
                                             [from |-> "failed", origin |-> <<>>]]
                           /\ UNCHANGED cache_store
    /\ UNCHANGED cache_urls
    /\ UNCHANGED <<pipeline_vars, cache_vars, analyzer_vars, decoder_vars, selector_vars,
                   installer_vars, lookup_vars>>

\* The URLs find_download_url can return: each starts with the letters of its
\* scheme
DownloadUrls == {url \in CacheUrls : url # <<>> /\ url[1] = "a"}

InitCacheDir ==
    /\ steps = StandardSteps /\ InitRun /\ ~keep_temp /\ ~rm_faults
    /\ CacheIdle /\ AnalyzerIdle /\ DecoderIdle /\ SelectorIdle /\ InstallerIdle /\ CacheDirIdle
    /\ LookupIdle
    /\ cache_urls \in [Runs -> DownloadUrls]
    /\ cache_paths = [r \in Runs |-> NoPath]

NextCacheDir == \E r \in Runs : FetchOrServe(r)

SpecCacheDir == InitCacheDir /\ [][NextCacheDir]_vars

\* ------------------------------------------------------------------------
Next ==
    \/ InitializeStep
    \/ ExtractZipStep
    \/ ExtractMsiStep
    \/ ExtractDllStep
    \/ AnalyzeStringsStep
    \/ AnalyzeUrlsStep
    \/ ProcessIsoStep
    \/ FinalizeStep
    \/ SkipStep
    \/ FinishExecute
    \/ SaveResults
    \/ CleanupPolicy
    \/ ExceptionHandler
    \/ cleanup_sessions_command
    \/ debug_session_command

Spec == Init /\ [][Next]_vars

\* The same program in an environment where no file operation of cleanup fails.
InitReliableCleanup == Init /\ ~rm_faults

SpecReliableCleanup == InitReliableCleanup /\ [][Next]_vars

\* AnalysisPipeline.execute run by a direct caller with a step that raises
InitCallerStep ==
    steps \in (Pipelines \cup CallerPipelines) /\ InitRun /\ CacheIdle /\ AnalyzerIdle /\ ToolsIdle

NextCallerStep == Next \/ CallerStepRaises

SpecCallerStep == InitCallerStep /\ [][NextCallerStep]_vars

\* ------------------------------------------------------------------------
\* The standard run in detail: the files each step hashes, and extract_msi
\* driving the external tool dark.exe

\* The exit code dark.exe gives for its warnings about patches
PATCH_WARNING == 283

ExitCodes == {0, PATCH_WARNING, 1}

\* What dark.exe wrote to stderr, as the sequence of its symbols: the two
\* literal phrases of the test are "Acceso denegado" and "Access " "denied"
StderrTexts ==
    {<<>>, <<"error">>, <<"Acceso denegado">>, <<"Access ", "denied">>, <<"error", "DENIED">>}

\* str.lower() of stderr
lower_stderr(stderr) ==
    [k \in 1..Len(stderr) |->
        CASE stderr[k] = "DENIED" -> "denied"
          [] stderr[k] = "Access " -> "access "
          [] stderr[k] = "Acceso denegado" -> "acceso denegado"
          [] OTHER -> stderr[k]]

\* What one completed invocation of the tool reports
ToolResults == [returncode : ExitCodes, stderr : StderrTexts]

\* The retry test asking for any failure of the first invocation.
should_retry_AnyFailure(result) == result.returncode # 0

\* "If script extraction fails": the first invocation failed and its stderr
\* has a permission-style message
should_retry(result) ==
    /\ result.returncode # 0
    /\ \/ Contains(<<"Acceso denegado">>, result.stderr)
       \/ Contains(<<"Access ", "denied">>, result.stderr)
       \/ Contains(<<"denied">>, lower_stderr(result.stderr))

\* The failure test accepting the patch-warning code only when files came out.
tool_failed_283NeedsFiles(result, extracted_files) ==
    /\ result.returncode # 0
    /\ ~(extracted_files /\ result.returncode = PATCH_WARNING)

\* The test after the invocations: CalledProcessError is raised when the
\* last result's code is not 0 and neither branch of the inner test spares it
tool_failed(result, extracted_files) ==
    /\ result.returncode # 0
    /\ ~(extracted_files /\ result.returncode = PATCH_WARNING)
    /\ result.returncode \notin {PATCH_WARNING}

\* One subprocess.run of dark.exe: with or without "-o script_file"
Invocation(script_output, result) ==
    [script_output |-> script_output,
     returncode    |-> result.returncode,
     stderr        |-> result.stderr]

\* extract_msi(msi_path, extract_dir, script_dir).  ready: dark.exe exists,
\* both directories were created and are writable.  first, second: what the
\* tool reports when invoked; extracted_files: extract_dir.glob("*") is not
\* empty.  The value is the invocations made and how the call ended.
extract_msi(ready, first, second, extracted_files) ==
    IF ~ready
    THEN [calls |-> <<>>, outcome |-> "raised"]
    ELSE LET with_script == Invocation(TRUE, first)
             calls  == IF should_retry(with_script)
                       THEN <<with_script, Invocation(FALSE, second)>>
                       ELSE <<with_script>>
             result == calls[Len(calls)]
         IN  [calls   |-> calls,
              outcome |-> IF tool_failed(result, extracted_files)
                          THEN "raised" ELSE "returned"]

\* FileHash.from_file / calculate_file_sha256 applied once to each of files
Hashed(files) ==
    [f \in LogicalFiles |-> IF f \in files THEN hash_calls[f] + 1 ELSE hash_calls[f]]

\* What a step of the detailed run leaves alone outside the context
stage_unchanged ==
    UNCHANGED <<steps, keep_temp, rm_faults, cache_vars, analyzer_vars, decoder_vars,
                selector_vars, cache_path_vars, cache_dir_vars, lookup_vars, marker_write,
                cleanup_log, op_count>>

\* The members a sample archive can hold
ArchiveMembers == {INSTALLER, EXTRACTED}

\* ExtractZipStep.execute: extract_zip, then FileHash.from_file on every
\* extracted file; a failure part-way leaves some members hashed
ExtractZipStep_execute ==
    /\ Iterate(EXTRACT_ZIP)
    /\ ExtractZipStep_can_execute
    /\ \E ok \in BOOLEAN, dbg \in BOOLEAN, members \in SUBSET ArchiveMembers :
          \E hashed \in SUBSET members :
              /\ ok => hashed = members
              /\ zip_members' = members
              /\ hash_calls' = Hashed(hashed)
              /\ Record(create_result(EXTRACT_ZIP, ok))
              /\ nested_debug' = (nested_debug \/ dbg)
    /\ UNCHANGED <<dll_info, urls_found, cnc_url, download_url, analysis_end,
                   threat_level, malware_family, analysis_summary>>
    /\ UNCHANGED <<dir_exists, manifest_exists, cleaned_lines, debug_marker>>
    /\ UNCHANGED <<tool_calls, msi_outcome>>
    /\ stage_unchanged

\* ExtractMsiStep.execute: find_msi_file, extract_msi, FileHash.from_file on
\* the installer (hashed = FALSE: the read failed)
ExtractMsiStep_execute ==
    /\ Iterate(EXTRACT_MSI)
    /\ ExtractMsiStep_can_execute
    /\ IF INSTALLER \notin zip_members
       THEN /\ Record(create_result(EXTRACT_MSI, FALSE))
            /\ UNCHANGED <<tool_calls, msi_outcome, hash_calls>>
       ELSE \E ready \in BOOLEAN, first \in ToolResults, second \in ToolResults,
               extracted_files \in BOOLEAN, hashed \in BOOLEAN :
               LET call == extract_msi(ready, first, second, extracted_files)
               IN  /\ tool_calls' = call.calls
                   /\ msi_outcome' = call.outcome
                   /\ IF call.outcome = "raised"
                      THEN /\ Record(create_result(EXTRACT_MSI, FALSE))
                           /\ UNCHANGED hash_calls
                      ELSE /\ Record(create_result(EXTRACT_MSI, hashed))
                           /\ hash_calls' = Hashed(IF hashed THEN {INSTALLER} ELSE {})
    /\ UNCHANGED <<dll_info, urls_found, cnc_url, download_url, analysis_end,
                   threat_level, malware_family, analysis_summary>>
    /\ UNCHANGED fs_vars
    /\ UNCHANGED zip_members
    /\ stage_unchanged

\* ExtractDllStep.execute: find_dll_files, copy_file, FileHash.from_file on
\* the selected library
ExtractDllStep_execute ==
    /\ Iterate(EXTRACT_DLL)
    /\ ExtractDllStep_can_execute
    /\ \E ok \in BOOLEAN, hashed \in BOOLEAN :
          /\ ok => hashed
          /\ Record(create_result(EXTRACT_DLL, ok))
          /\ dll_info' = (dll_info \/ ok)
          /\ hash_calls' = Hashed(IF hashed THEN {DLL} ELSE {})
    /\ UNCHANGED <<urls_found, cnc_url, download_url, analysis_end,
                   threat_level, malware_family, analysis_summary>>
    /\ UNCHANGED fs_vars
    /\ UNCHANGED <<zip_members, tool_calls, msi_outcome>>
    /\ stage_unchanged

\* The files ProcessIsoStep.execute has hashed when it ends: each hash follows
\* the operation that produced the file, and a failure ends the step there
IsoHashed == {{}, {ISO}, {ISO, DECODED_ZIP}, {ISO, DECODED_ZIP, EXECUTABLE}}

\* ProcessIsoStep.execute: the ISO (cached or fetched), decode_iso, the
\* decoded archive, the executable found in it
ProcessIsoStep_execute ==
    /\ Iterate(PROCESS_ISO)
    /\ ProcessIsoStep_can_execute
    /\ \E ok \in BOOLEAN, dbg \in BOOLEAN, hashed \in IsoHashed :
          /\ ok => {ISO, DECODED_ZIP} \subseteq hashed
          /\ Record(create_result(PROCESS_ISO, ok))
          /\ nested_debug' = (nested_debug \/ (ok /\ dbg))
          /\ hash_calls' = Hashed(hashed)
    /\ UNCHANGED <<dll_info, urls_found, cnc_url, download_url, analysis_end,
                   threat_level, malware_family, analysis_summary>>
    /\ UNCHANGED <<dir_exists, manifest_exists, cleaned_lines, debug_marker>>
    /\ UNCHANGED <<zip_members, tool_calls, msi_outcome>>
    /\ stage_unchanged

\* PipelineContext.__init__: calculate_file_sha256(sample_path) for
\* sha256_hash, then FileHash.from_file(sample_path, "sample_zip")
PipelineContext_init ==
    /\ zip_members = {}
    /\ tool_calls = <<>>
    /\ msi_outcome = "none"
    /\ hash_calls = [f \in LogicalFiles |-> IF f = SAMPLE THEN 2 ELSE 0]

\* process_sample on the standard pipeline, the context just constructed
InitStages ==
    /\ steps = StandardSteps
    /\ InitRun
    /\ ~keep_temp
    /\ ~rm_faults
    /\ CacheIdle /\ AnalyzerIdle /\ DecoderIdle /\ SelectorIdle /\ CachePathIdle
    /\ CacheDirIdle /\ LookupIdle
    /\ PipelineContext_init

NextStages ==
    \/ InitializeStep
    \/ ExtractZipStep_execute
    \/ ExtractMsiStep_execute
    \/ ExtractDllStep_execute
    \/ AnalyzeStringsStep
    \/ AnalyzeUrlsStep
    \/ ProcessIsoStep_execute
    \/ FinalizeStep
    \/ SkipStep
    \/ FinishExecute
    \/ SaveResults
    \/ CleanupPolicy
    \/ ExceptionHandler

SpecStages == InitStages /\ [][NextStages]_vars

\* _generate_summary applied to every metadata a context can hold at the end
\* of the loop (update_metadata sets any field)
InitSummary ==
    /\ steps \in Pipelines
    /\ keep_temp = FALSE
    /\ rm_faults = FALSE
    /\ pc = "finish"
    /\ idx = 1
    /\ gated = <<>>
    /\ stage_results = <<>>
    /\ dll_info \in BOOLEAN
    /\ urls_found \in SUBSET URLS
    /\ cnc_url \in find_cnc_url(urls_found)
    /\ download_url \in find_download_url(urls_found)
    /\ analysis_end = FALSE
    /\ threat_level = "unknown"
    /\ malware_family = "unknown"
    /\ analysis_summary = ""
    /\ dir_exists = TRUE
    /\ manifest_exists = TRUE
    /\ cleaned_lines = 0
    /\ debug_marker = FALSE
    /\ nested_debug = FALSE
    /\ marker_write = "none"
    /\ cleanup_log = <<>>
    /\ op_count = 0
    /\ CacheIdle /\ ToolsIdle
    /\ AnalyzerIdle

NextSummary == FinishExecute

SpecSummary == InitSummary /\ [][NextSummary]_vars

\* ------------------------------------------------------------------------
\* Properties

HasResult(stage) == \E i \in 1..Len(stage_results) : stage_results[i].stage = stage

Succeeded(stage) ==
    \E i \in 1..Len(stage_results) :
        stage_results[i].stage = stage /\ stage_results[i].success

Failed(stage) ==
    \E i \in 1..Len(stage_results) :
        stage_results[i].stage = stage /\ ~stage_results[i].success

WasGated(step) == \E k \in 1..Len(gated) : gated[k] = step

InPipeline(step) == \E k \in 1..Len(steps) : steps[k] = step

StepIndex(step) == CHOOSE k \in 1..Len(steps) : steps[k] = step

\* process_sample has just returned or raised: no operator command yet
JustReturned == pc = "returned" /\ op_count = 0

JustRaised == pc = "raised" /\ op_count = 0

\* A transition in which cleanup_session_temp_dir was called
CleanupCalled == Len(cleanup_log') = Len(cleanup_log) + 1

\* C1: a failed result of a stage other than process_iso is the last entry of
\* the history, the loop is over, and the last gate the engine invoked is the
\* gate of that stage: nothing after it was gated or executed.
C1_FatalStop ==
    \A i \in 1..Len(stage_results) :
        (~stage_results[i].success /\ stage_results[i].stage # PROCESS_ISO)
            => /\ i = Len(stage_results)
               /\ pc # "loop"
               /\ gated[Len(gated)] = stage_results[i].stage

\* C1 witness: [initialize succeeds, extract_zip fails, ...] ends with the
\* history [initialize completed, extract_zip failed].
C1_Witness ==
    /\ steps = StandardSteps
    /\ pc = "returned"
    /\ stage_results = <<create_result(INITIALIZE, TRUE), create_result(EXTRACT_ZIP, FALSE)>>
    /\ gated = <<INITIALIZE, EXTRACT_ZIP>>

\* C2: after a failed process_iso result the engine goes on with the next step:
\* while the loop runs it stands at a later step, and once the loop is over every
\* later step was gated and, its gate holding, executed; in the standard
\* pipeline the history then ends with a completed finalize and the run is
\* finalized (timing closed, classification computed).
C2_FaultTolerantContinues ==
    Failed(PROCESS_ISO) =>
        /\ pc = "loop" => idx > StepIndex(PROCESS_ISO)
        /\ pc # "loop" =>
              \A k \in (StepIndex(PROCESS_ISO) + 1)..Len(steps) :
                  /\ WasGated(steps[k])
                  /\ can_execute(steps[k]) => HasResult(steps[k])
        /\ (steps = StandardSteps /\ pc # "loop") =>
              stage_results[Len(stage_results)] = create_result(FINALIZE, TRUE)
        /\ (steps = StandardSteps /\ pc \notin {"loop", "finish"}) =>
              analysis_end /\ threat_level # "unknown"

\* C2 witness: the standard pipeline finished after a failed process_iso.
C2_Witness ==
    /\ steps = StandardSteps
    /\ pc = "save"
    /\ Failed(PROCESS_ISO)
    /\ Succeeded(FINALIZE)
    /\ analysis_end

\* C3 as stated: after process_sample returned from a run whose recorded stages
\* all succeeded, without keep_temp, the session directory does not exist.
C3_CleanRunRemovesDirectory ==
    (JustReturned /\ ~keep_temp /\ \A i \in 1..Len(stage_results) : stage_results[i].success)
        => ~dir_exists

\* C4: after process_sample returned from a run with a failed stage result, or
\* with keep_temp, cleanup was never called, the session directory exists and
\* holds the retention marker.
C4_FailedOrKeptRunRetained ==
    (JustReturned /\ (keep_temp \/ \E i \in 1..Len(stage_results) : ~stage_results[i].success))
        => /\ cleanup_log = <<>>
           /\ dir_exists
           /\ debug_marker

\* C4 witness: a returned run whose only failure is the fault-tolerant stage.
C4_Witness ==
    /\ JustReturned
    /\ ~keep_temp
    /\ Failed(PROCESS_ISO)
    /\ \A i \in 1..Len(stage_results) :
          stage_results[i].stage # PROCESS_ISO => stage_results[i].success
    /\ debug_marker

\* C5 as stated: a cleanup call on an existing session directory removes it
\* exactly when the retention marker is absent or force is true.
C5_CleanupRemovesIffUnmarkedOrForced ==
    [][(CleanupCalled /\ dir_exists)
          => (~dir_exists' <=> (~debug_marker \/ cleanup_log'[Len(cleanup_log')].force))]_vars

\* C6 as stated: a cleanup call with the marker present and force false leaves
\* the session directory and every file in it, the manifest included, unchanged.
C6_SkippedCleanupIsNoOp ==
    [][(CleanupCalled /\ dir_exists /\ debug_marker /\ ~cleanup_log'[Len(cleanup_log')].force)
          => UNCHANGED fs_vars]_vars

\* C7 as stated: when process_sample re-raises, the retention marker has been
\* written into the session directory.
C7_RaisedImpliesMarker ==
    JustRaised => (dir_exists /\ debug_marker)

\* C7 amended: when process_sample re-raises, the handler has attempted the
\* marker write, the marker is present if that write succeeded, cleanup was
\* never called and the session directory exists.
C7_RaisedImpliesRetained ==
    JustRaised =>
        /\ marker_write \in {"ok", "failed"}
        /\ marker_write = "ok" => debug_marker
        /\ cleanup_log = <<>>
        /\ dir_exists

\* C7 witness: a run whose result saving failed and whose handler wrote the marker.
C7_Witness ==
    /\ JustRaised
    /\ steps = StandardSteps
    /\ Succeeded(FINALIZE)
    /\ marker_write = "ok"
    /\ debug_marker

\* C8: a loop iteration whose gate is false appends nothing to the history and
\* the engine goes on with the next step of the list.
C8_SkipLeavesNoTrace ==
    [][(pc = "loop" /\ gated' # gated /\ ~can_execute(steps[idx]))
          => /\ stage_results' = stage_results
             /\ idx' = idx + 1
             /\ pc' = IF idx < Len(steps) THEN "loop" ELSE "finish"]_vars

\* C8 witness: the standard pipeline returned, process_iso was gated out and
\* left no result, and the finalize step after it was executed.
C8_Witness ==
    /\ steps = StandardSteps
    /\ pc = "returned"
    /\ WasGated(PROCESS_ISO)
    /\ ~HasResult(PROCESS_ISO)
    /\ Len(stage_results) = Len(steps) - 1
    /\ stage_results[Len(stage_results)].stage = FINALIZE

\* The gate dependency of the stage table.
Prerequisite(stage) ==
    CASE stage = EXTRACT_ZIP     -> INITIALIZE
      [] stage = EXTRACT_MSI     -> EXTRACT_ZIP
      [] stage = EXTRACT_DLL     -> EXTRACT_MSI
      [] stage = ANALYZE_STRINGS -> EXTRACT_DLL
      [] stage = ANALYZE_URLS    -> ANALYZE_STRINGS

\* C9: every result of extract_zip, extract_msi, extract_dll, analyze_strings
\* or analyze_urls is preceded in the history by a successful result of its
\* prerequisite stage.
C9_NoStageAheadOfPrerequisite ==
    \A i \in 1..Len(stage_results) :
        stage_results[i].stage \in
            {EXTRACT_ZIP, EXTRACT_MSI, EXTRACT_DLL, ANALYZE_STRINGS, ANALYZE_URLS}
        => \E j \in 1..(i - 1) :
              /\ stage_results[j].stage = Prerequisite(stage_results[i].stage)
              /\ stage_results[j].success

\* C9 witness: all five gated stages have a result.
C9_Witness ==
    /\ HasResult(EXTRACT_ZIP)
    /\ HasResult(EXTRACT_MSI)
    /\ HasResult(EXTRACT_DLL)
    /\ HasResult(ANALYZE_STRINGS)
    /\ HasResult(ANALYZE_URLS)

\* C10: once the engine is past process_iso, the stage has a result exactly when
\* analyze_urls succeeded and a download URL was recorded; in the standard
\* pipeline, when analyze_urls succeeded without a download URL, process_iso
\* was gated out and finalize has a result once the loop is over.
C10_FetchIffDownloadUrl ==
    (InPipeline(PROCESS_ISO) /\ (WasGated(PROCESS_ISO) \/ pc # "loop")) =>
        /\ HasResult(PROCESS_ISO) <=> (Succeeded(ANALYZE_URLS) /\ download_url # NoUrl)
        /\ (steps = StandardSteps /\ Succeeded(ANALYZE_URLS) /\ download_url = NoUrl) =>
              /\ WasGated(PROCESS_ISO)
              /\ ~HasResult(PROCESS_ISO)
              /\ pc # "loop" => Succeeded(FINALIZE)

\* C10 witness: URLs were found, none of them a download URL, and the run
\* finished through finalize without process_iso.
C10_Witness ==
    /\ steps = StandardSteps
    /\ pc = "returned"
    /\ Succeeded(ANALYZE_URLS)
    /\ urls_found # {}
    /\ download_url = NoUrl
    /\ ~HasResult(PROCESS_ISO)
    /\ Succeeded(FINALIZE)

\* C11: within one run the stage history only grows at its end, each stage is
\* gated and executed at most once, and the recorded results follow the fixed
\* stage order strictly; no recorded entry is removed or changed.
StageOrder(stage) == CHOOSE k \in 1..Len(StandardSteps) : StandardSteps[k] = stage

HistoryInStageOrder ==
    /\ \A i, j \in 1..Len(stage_results) :
          i < j => StageOrder(stage_results[i].stage) < StageOrder(stage_results[j].stage)
    /\ \A i, j \in 1..Len(gated) : i < j => gated[i] # gated[j]

HistoryAppendOnly ==
    \/ stage_results' = stage_results
    \/ /\ Len(stage_results') = Len(stage_results) + 1
       /\ SubSeq(stage_results', 1, Len(stage_results)) = stage_results

C11_HistoryAppendOnlyInOrder == []HistoryInStageOrder /\ [][HistoryAppendOnly]_vars

C11_Witness ==
    /\ pc = "save"
    /\ Len(stage_results) = Len(StandardSteps)
    /\ \A k \in 1..Len(StandardSteps) : stage_results[k].stage = StandardSteps[k]

\* C12: every return of the engine's run operation, after a completed loop or
\* after an early stop, has the run timing closed and the threat
\* classification computed.
EngineReturned == pc \notin {"loop", "finish"}

Finalized == analysis_end /\ threat_level \in {"high", "medium", "low"}

C12_EveryReturnFinalized == EngineReturned => Finalized

\* C12 as the engine has it: a return after a completed loop or a break is
\* finalized, exactly once and at the loop's end; a return after the engine
\* caught an exception of a gate or an execute has the timing unclosed and the
\* classification still "unknown".
ReturnFinalizedUnlessCaught ==
    EngineReturned =>
        IF analysis_summary = "Pipeline failed"
        THEN ~analysis_end /\ threat_level = "unknown" /\ malware_family = "unknown"
        ELSE Finalized /\ analysis_summary = "Analysis completed"

FinalizedOnce ==
    /\ analysis_end' # analysis_end => pc = "finish" /\ analysis_end'
    /\ analysis_end =>
          /\ threat_level' = threat_level
          /\ malware_family' = malware_family
          /\ analysis_summary' = analysis_summary

C12_ReturnFinalizedUnlessCaught == []ReturnFinalizedUnlessCaught /\ [][FinalizedOnce]_vars

C12_Witness ==
    /\ EngineReturned
    /\ \E i \in 1..Len(stage_results) : Fatal(stage_results[i])
    /\ Len(gated) < Len(steps)
    /\ Finalized

\* C13: the threat classification is a function of the metadata at the end of
\* the loop: high / Grandoreiro exactly when the payload library was isolated
\* and a URL was found, medium / Suspicious exactly when URLs were found
\* without the library, low / Unknown in every other case.
C13_ThreatIsFunctionOfMetadata ==
    analysis_end =>
        /\ (dll_info /\ urls_found # {}) <=>
               (threat_level = "high" /\ malware_family = "Grandoreiro")
        /\ (~dll_info /\ urls_found # {}) <=>
               (threat_level = "medium" /\ malware_family = "Suspicious")
        /\ (urls_found = {}) <=>
               (threat_level = "low" /\ malware_family = "Unknown")

C13_Witness ==
    /\ analysis_end
    /\ ~dll_info
    /\ urls_found # {}
    /\ threat_level = "medium"

\* C14: when two successive runs process the same URL and the first stores
\* the fetched artifact in the cache, exactly one network fetch is made: the
\* second run is served from the cache and both runs work on identical content.
Stored(r) == \E i \in 1..Len(ended) : ended[i] = r

CopyOver(r) == run[r].pc \in {"decode", "save", "done"} /\ run[r].iso # Absent

C14_CacheIdempotent ==
    \A a, b \in Runs :
        (/\ a # b
         /\ ~overlap
         /\ run[a].seq = 1
         /\ Stored(a)
         /\ run[b].path # None)
        => /\ run[a].path = "miss" /\ run[a].fetched
           /\ run[b].path = "hit" /\ ~run[b].fetched
           /\ cache = run[a].iso
           /\ CopyOver(b) => run[b].iso = run[a].iso

C14_Witness ==
    /\ ~overlap
    /\ \A r \in Runs : run[r].pc = "done" /\ run[r].iso_ok
    /\ Cardinality({r \in Runs : run[r].fetched}) = 1
    /\ run[1].iso = run[2].iso

\* C15: when two concurrent runs both miss and both write the cache entry,
\* the entry holds, after both have finished, the complete body that one of
\* them fetched, never a mixture of the two bodies nor a truncated body.
C15_CacheRaceLeavesWholeBody ==
    (\A r \in Runs : run[r].path = "miss" /\ Stored(r))
        => cache \in {run[r].iso : r \in Runs}

\* C16: runs share no mutable state except the cache: every file a run
\* creates or overwrites lies under its own session working directory or in
\* the cache directory.
C16_WritesInSessionOrCache ==
    \A r \in Runs :
        run[r].written \subseteq {SessionDir(run[r].session_id), CacheDir}

\* C16 as the code has it: a run also writes under the shared output
\* directory (the results file named after the sample, the extracted
\* executable under its own name) and, when started from the command line,
\* appends to the shared log file; nothing is written anywhere else, and a
\* file of the output directory belongs to the run that wrote it last.
C16_WritesInSessionCacheOrOutput ==
    /\ \A r \in Runs :
          run[r].written \subseteq
              {SessionDir(run[r].session_id), CacheDir, OutputDir, LogFile}
    /\ \A name \in DOMAIN output_files :
          OutputDir \in run[output_files[name]].written

C16_Witness ==
    /\ \A r \in Runs : run[r].pc = "done" /\ OutputDir \in run[r].written
    /\ run[1].sample = run[2].sample
    /\ \E r \in Runs : CacheDir \in run[r].written

\* C17: a run has exactly one session, from its start to its end; two runs
\* have distinct session ids and distinct working directories, and a run
\* writes no file under the working directory of another run.
OneSessionPerRun ==
    \A r \in Runs :
        /\ (run[r].pc = "idle") <=> (run[r].session_id = None)
        /\ \A f \in run[r].written : f.root = "temp" => f = SessionDir(run[r].session_id)
        /\ \A o \in Runs \ {r} :
              run[r].session_id # None =>
                  /\ run[o].session_id # run[r].session_id
                  /\ SessionDir(run[o].session_id) \notin run[r].written

SessionKept ==
    \A r \in Runs : run[r].session_id # None => run'[r].session_id = run[r].session_id

C18_NoStringBelowMinLength ==
    an_pc = "done" => \A k \in 1..Len(strings) : Len(strings[k]) >= min_length

\* C19: the scanner's result has no duplicates and keeps discovery order:
\* the strings of the ASCII pass in scan order, then those of the UTF-16 pass
\* not seen before, each string at the place of its first occurrence.
FirstIndex(l, x) == CHOOSE k \in 1..Len(l) : l[k] = x /\ \A m \in 1..(k - 1) : l[m] # x

Discovered == AsciiStrings(data) \o Utf16Strings(data)

C19_DedupedInDiscoveryOrder ==
    an_pc = "done" =>
        /\ \A i, j \in 1..Len(strings) : i # j => strings[i] # strings[j]
        /\ {strings[k] : k \in 1..Len(strings)} = {Discovered[k] : k \in 1..Len(Discovered)}
        /\ \A i, j \in 1..Len(strings) :
              i < j => FirstIndex(Discovered, strings[i]) < FirstIndex(Discovered, strings[j])

C19_Witness ==
    /\ an_pc = "done"
    /\ AsciiStrings(data) # <<>>
    /\ Utf16Strings(data) # <<>>
    /\ Len(Discovered) > Len(strings)

\* C20: find_urls returns exactly the set of the http:// and https://
\* substrings of its input strings, each running up to the next whitespace,
\* several per string included and duplicates once; read either as every
\* occurrence of a prefix or as the outermost occurrence in each word.
SchemeAt(s, i) == s[i] \in {HTTP, HTTPS} /\ i < Len(s) /\ s[i + 1] \notin Spaces

SameWord(s, i, j) == \A k \in i..j : s[k] \notin Spaces

EveryOccurrence(strs) ==
    UNION {{SubSeq(strs[k], i, WordEnd(strs[k], i)) :
               i \in {n \in 1..Len(strs[k]) : SchemeAt(strs[k], n)}} :
           k \in 1..Len(strs)}

OutermostOccurrence(strs) ==
    UNION {{SubSeq(strs[k], i, WordEnd(strs[k], i)) :
               i \in {n \in 1..Len(strs[k]) :
                         /\ SchemeAt(strs[k], n)
                         /\ \A m \in 1..(n - 1) :
                               SchemeAt(strs[k], m) => ~SameWord(strs[k], m, n)}} :
           k \in 1..Len(strs)}

C20_FindUrlsExactSet ==
    an_pc = "done" =>
        \/ url_set = EveryOccurrence(text)
        \/ url_set = OutermostOccurrence(text)

\* C20 as the code has it: the two prefixes are scanned for separately; for
\* each, a word yields the substring from its first occurrence of that prefix
\* (one that has a character after it) to the end of the word.  A URL inside
\* a URL of the same prefix is not returned, one inside a URL of the other
\* prefix is.
FirstOfScheme(strs, scheme) ==
    UNION {{SubSeq(strs[k], i, WordEnd(strs[k], i)) :
               i \in {n \in 1..Len(strs[k]) :
                         /\ strs[k][n] = scheme /\ SchemeAt(strs[k], n)
                         /\ \A m \in 1..(n - 1) :
                               strs[k][m] = scheme => ~SameWord(strs[k], m, n)}} :
           k \in 1..Len(strs)}

C20_FindUrlsPerSchemeOutermost ==
    an_pc = "done" => url_set = FirstOfScheme(text, HTTP) \cup FirstOfScheme(text, HTTPS)

C20_Witness ==
    /\ an_pc = "done"
    /\ Cardinality(url_set) >= 2
    /\ url_set # EveryOccurrence(text)
    /\ url_set # OutermostOccurrence(text)

\* C21: each lookup returns a member of the set it was given that holds its
\* pattern (the literal 5050/index.php as spelled; the letters i, s, o in a
\* row in either case) whenever the set has such a member, and None when it
\* has none; it returns nothing else.
HoldsLiteral(url) == \E k \in 1..Len(url) : url[k] = "5050/index.php"

HoldsMarkerAnyCase(url) ==
    \E k \in 1..(Len(url) - 2) :
        /\ url[k] \in {"i", "I"}
        /\ url[k + 1] \in {"s", "S"}
        /\ url[k + 2] \in {"o", "O"}

C21_LookupReturnsMatchOrNone ==
    an_pc = "done" =>
        /\ IF \E u \in url_set : HoldsLiteral(u)
           THEN cnc_url \in url_set /\ HoldsLiteral(cnc_url)
           ELSE cnc_url = NoUrl
        /\ IF \E u \in url_set : HoldsMarkerAnyCase(u)
           THEN download_url \in url_set /\ HoldsMarkerAnyCase(download_url)
           ELSE download_url = NoUrl

\* C21 witness: a set of two URLs, one holding the literal and one holding
\* the marker in mixed case only; each lookup returned its URL.
C21_Witness ==
    /\ an_pc = "done"
    /\ Cardinality(url_set) = 2
    /\ cnc_url # NoUrl /\ ~HoldsMarkerAnyCase(cnc_url)
    /\ download_url = <<"i", "S", "o">>

\* C22: when the fetched file is the base64 encoding of the base64 encoding of
\* the bytes b, decode_iso returns and the decoded archive it wrote holds
\* exactly b.
DecodeOver == decode_pc # "ready"

C22_DecodeRoundTrip ==
    (DecodeOver /\ iso_dir[ISO_NAME] = b64encode(b64encode(payload))) =>
        /\ decode_pc = "returned"
        /\ "decoded.zip" \in DOMAIN iso_dir
        /\ iso_dir["decoded.zip"] = payload

\* C22 witness: a payload of two bytes, whose two encodings both end in
\* padding, was recovered from the twice-encoded file.
C22_Witness ==
    /\ decode_pc = "returned"
    /\ Len(payload) = 2
    /\ iso_dir[ISO_NAME] = b64encode(b64encode(payload))
    /\ iso_dir[ISO_NAME][Len(iso_dir[ISO_NAME])] = PAD
    /\ iso_dir["decoded.zip"] = payload

\* C23: for a script of two actions, one declaring the signature entry point
\* and referencing the key K, the other declaring another entry point and
\* referencing the key benign, with both files present under Binary/, the
\* selector returns exactly the file of K.
SelectionScenario ==
    /\ Len(wxs) = 2
    /\ \E i, j \in 1..2 :
          /\ wxs[i].key = K_NAME /\ wxs[i].entry = SIGNATURE
          /\ wxs[j].key = BENIGN_NAME /\ wxs[j].entry = "Other"
    /\ {BinaryPath(K_NAME), BinaryPath(BENIGN_NAME)} \subseteq msi_output

C23_SelectsSignatureBinary ==
    (select_pc # "ready" /\ SelectionScenario) => dll_files = {BinaryPath(K_NAME)}

\* C29: the legacy search (every file with the extension dll) is made exactly
\* when no key found by the signature has its file under Binary/; when some
\* key has, every file returned is one of those files.
C29_FallbackIffSignatureEmpty ==
    select_pc # "ready" =>
        /\ select_pc = "fallback" <=> signature_files(wxs, msi_output) = {}
        /\ signature_files(wxs, msi_output) # {} =>
               dll_files \subseteq signature_files(wxs, msi_output)
        /\ signature_files(wxs, msi_output) = {} =>
               dll_files \subseteq find_files_by_extension(msi_output, "dll")

\* C29 witness: the signature found the file of K while libraries that the
\* legacy search would return exist too; only the file of K was returned.
C29_Witness ==
    /\ select_pc = "signature"
    /\ dll_files = {BinaryPath(K_NAME)}
    /\ find_files_by_extension(msi_output, "dll") # {}
    /\ exclude_patterns = {"aicustact"}

\* C24: the cache file name of a URL is the URL with every character that is
\* not a word character replaced by an underscore, cut to the maximal length;
\* two calls with the same URL return the same path.
Resolved(r) == cache_paths[r] # NoPath

NonWordReplaced(url) == [k \in 1..Len(url) |-> IF IsWordChar(url[k]) THEN url[k] ELSE "_"]

FirstChars(s) == SubSeq(s, 1, IF Len(s) > SAFE_NAME_LEN THEN SAFE_NAME_LEN ELSE Len(s))

SameUrlSamePath ==
    \A a, b \in Runs :
        (Resolved(a) /\ Resolved(b) /\ cache_urls[a] = cache_urls[b])
            => cache_paths[a] = cache_paths[b]

C24_CacheNameNonWordReplaced ==
    /\ \A r \in Runs :
          Resolved(r) =>
              cache_paths[r] = [dir |-> "cache", name |-> FirstChars(NonWordReplaced(cache_urls[r]))]
    /\ SameUrlSamePath

\* C24 as the code has it: hyphens and dots are kept as well as word
\* characters; every other character becomes an underscore.
KeptOrReplaced(url) ==
    [k \in 1..Len(url) |->
        IF IsWordChar(url[k]) \/ url[k] = "-" \/ url[k] = "." THEN url[k] ELSE "_"]

C24_CacheNameKeepsHyphenAndDot ==
    /\ \A r \in Runs :
          Resolved(r) =>
              cache_paths[r] = [dir |-> "cache", name |-> FirstChars(KeptOrReplaced(cache_urls[r]))]
    /\ SameUrlSamePath

\* C24 witness: both runs resolved the same URL, longer than the cut, with a
\* replaced character and a kept dot among those that remain.
C24_Witness ==
    /\ \A r \in Runs : Resolved(r)
    /\ cache_urls[1] = cache_urls[2]
    /\ Len(cache_urls[1]) > SAFE_NAME_LEN
    /\ cache_paths[1].name = <<"_", ".">>

\* C25: every call of cleanup_session_temp_dir returns: a failed manifest
\* update, marker search or deletion ends the call with the warning logged,
\* and process_sample goes on to return after its cleanup call; a call for a
\* session whose directory does not exist changes nothing.
CleanupReturns ==
    \A i \in 1..Len(cleanup_log) :
        cleanup_log[i].outcome \in {"absent", "skipped", "removed", "failed"}

AbsentIsNoOp ==
    (CleanupCalled /\ ~dir_exists) =>
        /\ UNCHANGED fs_vars
        /\ cleanup_log'[Len(cleanup_log')].outcome = "absent"

PolicyGoesOn == (CleanupCalled /\ pc = "policy") => pc' = "returned"

C25_CleanupNeverRaises == []CleanupReturns /\ [][AbsentIsNoOp /\ PolicyGoesOn]_vars

\* C25 witness: the run's own cleanup met a failing operation and the run
\* returned; later the operator's cleanup found the directory gone.
C25_Witness ==
    /\ pc = "returned"
    /\ Len(cleanup_log) = 3
    /\ cleanup_log[1].outcome = "failed"
    /\ cleanup_log[3].outcome = "absent"
    /\ ~dir_exists

\* C26: each standard step whose gate held hands the engine one StageResult
\* of its own stage, completed or failed; a failed one carries the error
\* message, and no step's failure reaches the engine as an exception (the
\* engine's handler, which writes "Pipeline failed", is never entered).
StepExecuted ==
    /\ pc = "loop"
    /\ idx <= Len(steps)
    /\ can_execute(steps[idx])
    /\ gated' # gated

ReturnsStageResult ==
    StepExecuted =>
        /\ Len(stage_results') = Len(stage_results) + 1
        /\ SubSeq(stage_results', 1, Len(stage_results)) = stage_results
        /\ LET result == stage_results'[Len(stage_results')]
           IN  /\ result.stage = steps[idx]
               /\ result.status = (IF result.success THEN "completed" ELSE "failed")
               /\ (result.error_message # None) <=> ~result.success
        /\ analysis_summary' = analysis_summary

NoStepRaised == analysis_summary # "Pipeline failed"

C26_ExecuteAlwaysReturnsResult == []NoStepRaised /\ [][ReturnsStageResult]_vars

\* C26 witness: a step failed inside, its failed result with the message is
\* on record, and the run went on to return.
C26_Witness ==
    /\ pc = "returned"
    /\ \E i \in 1..Len(stage_results) :
          /\ stage_results[i].stage = EXTRACT_DLL
          /\ stage_results[i].status = "failed"
          /\ stage_results[i].error_message = "str(e)"

\* C27: whenever extract_msi ran the tool, it returned exactly when the last
\* invocation's exit code was 0 or 283 and raised for every other code; a
\* raised extract_msi leaves extract_msi's stage failed, and that stage is the
\* last one the engine ran.
LastInvocation == tool_calls[Len(tool_calls)]

ExitCodeDecides ==
    tool_calls # <<>> =>
        (msi_outcome = "returned" <=> LastInvocation.returncode \in {0, 283})

FailedExtractionStopsRun ==
    msi_outcome = "raised" =>
        /\ pc # "loop"
        /\ gated[Len(gated)] = EXTRACT_MSI
        /\ stage_results[Len(stage_results)].stage = EXTRACT_MSI
        /\ stage_results[Len(stage_results)].status = "failed"

C27_ExitCodeDecidesExtraction == ExitCodeDecides /\ FailedExtractionStopsRun

\* C27 witness: the tool ended with a code other than 0 and 283, the stage
\* failed and the run returned without a later stage.
C27_Witness ==
    /\ pc = "returned"
    /\ Len(tool_calls) = 1
    /\ tool_calls[1].returncode = 1
    /\ msi_outcome = "raised"
    /\ Len(stage_results) = 3

\* C28: extract_msi invokes the tool at most twice; the first invocation
\* asks for the script output; a second one was made only if the first ended
\* with a non-zero code and a permission-style stderr, and it does not ask
\* for the script output; the call returns or raises by the exit code of the
\* last invocation made.
PermissionStyleTexts ==
    {<<"Acceso denegado">>, <<"Access ", "denied">>, <<"error", "DENIED">>}

C28_AtMostOneRetry ==
    /\ Len(tool_calls) <= 2
    /\ Len(tool_calls) >= 1 => tool_calls[1].script_output
    /\ Len(tool_calls) = 2 =>
          /\ tool_calls[1].returncode # 0
          /\ tool_calls[1].stderr \in PermissionStyleTexts
          /\ ~tool_calls[2].script_output
    /\ msi_outcome = "returned" =>
          tool_calls[Len(tool_calls)].returncode \in {0, PATCH_WARNING}
    /\ msi_outcome = "raised" /\ tool_calls # <<>> =>
          tool_calls[Len(tool_calls)].returncode \notin {0, PATCH_WARNING}

\* C28 witness: the first invocation failed with "Acceso denegado", the second
\* one, made without the script output, ended with 0 and the call returned.
C28_Witness ==
    /\ Len(tool_calls) = 2
    /\ tool_calls[1].returncode = 1
    /\ tool_calls[1].stderr = <<"Acceso denegado">>
    /\ ~tool_calls[2].script_output
    /\ tool_calls[2].returncode = 0
    /\ msi_outcome = "returned"

\* C30: within a run the hash of each logical file is computed at most once.
C30_HashedAtMostOnce == \A f \in LogicalFiles : hash_calls[f] <= 1

\* C31: in the standard pipeline the gate of every stage but process_iso
\* holds whenever the engine evaluates it; the history is a prefix of the
\* stage order, or of the stage order without process_iso; at most one entry
\* of a stage other than process_iso is failed, and such an entry is the last.
GateHoldsUnlessProcessIso ==
    (pc = "loop" /\ idx <= Len(steps)) =>
        (can_execute(steps[idx]) \/ steps[idx] = PROCESS_ISO)

StagesOfHistory == [i \in 1..Len(stage_results) |-> stage_results[i].stage]

PrefixOf(order) ==
    /\ Len(StagesOfHistory) <= Len(order)
    /\ StagesOfHistory = SubSeq(order, 1, Len(StagesOfHistory))

WithoutProcessIso == SubSeq(StandardSteps, 1, 6) \o <<FINALIZE>>

FatalFailures ==
    {i \in 1..Len(stage_results) :
        ~stage_results[i].success /\ stage_results[i].stage # PROCESS_ISO}

C31_OnlyProcessIsoSkipped ==
    steps = StandardSteps =>
        /\ GateHoldsUnlessProcessIso
        /\ PrefixOf(StandardSteps) \/ PrefixOf(WithoutProcessIso)
        /\ Cardinality(FatalFailures) <= 1
        /\ \A i \in FatalFailures : i = Len(stage_results)

\* C31 witness: a standard run whose process_iso gate was false: finalize
\* follows analyze_urls in the history and the run returned.
C31_Witness ==
    /\ steps = StandardSteps
    /\ pc = "returned"
    /\ StagesOfHistory = WithoutProcessIso

\* C32: AnalysisPipeline.execute called with a step whose gate or execute
\* raises returns to its caller: the exception does not leave it, the results
\* recorded before the step are the ones returned, analysis_end stays unset
\* and threat_level stays "unknown".
EngineAlwaysReturns ==
    steps \in CallerPipelines => pc \in {"loop", "finish", "executed"}

StepRaised ==
    /\ pc = "loop"
    /\ idx <= Len(steps)
    /\ steps[idx] = CALLER_STEP
    /\ gated' # gated

CaughtAndReturned ==
    StepRaised =>
        /\ pc' = "executed"
        /\ stage_results' = stage_results
        /\ ~analysis_end'
        /\ threat_level' = "unknown"

C32_EngineSwallowsStepException == []EngineAlwaysReturns /\ [][CaughtAndReturned]_vars

\* C32 witness: the engine returned after a step raised behind three recorded
\* stages; the timing is unclosed and the classification is "unknown".
C32_Witness ==
    /\ pc = "executed"
    /\ analysis_summary = "Pipeline failed"
    /\ Len(stage_results) = 3
    /\ ~analysis_end
    /\ threat_level = "unknown"

\* C33: a run takes the cache-hit path exactly when the cache file exists at
\* its test, whatever the entry holds and whoever is writing it; the entry an
\* other run is writing block by block is such a file.  (The interleaving of
\* the claim is the witness below.)
CacheTested(r) == run[r].pc = "check" /\ run'[r].pc # "check"

C33_HitByExistenceAlone ==
    [][\A r \in Runs :
          CacheTested(r) =>
              /\ run'[r].path = "hit" <=> cache # Absent
              /\ run'[r].path = "miss" <=> cache = Absent]_vars

\* C33 witness: run 2 took the hit path and finished its copy of the entry
\* while run 1 is still inside its cache write; run 2 goes on to decode the
\* first block only of the body run 1 fetched.
C33_Witness ==
    /\ run[1].pc = "write_cache"
    /\ run[1].off = 1
    /\ Len(run[1].iso) = 2
    /\ run[2].path = "hit"
    /\ run[2].pc = "decode"
    /\ run[2].iso = <<run[1].iso[1]>>

\* C34: when the first of two successive runs on one URL stored the artifact
\* it fetched and decode_iso then raised on it, the entry stays in the cache
\* as stored; the later run takes the hit path, makes no fetch, and its own
\* decode_iso, once reached, raises too, so its process_iso fails as well.
C34_UndecodableArtifactStaysCached ==
    \A a, b \in Runs :
        (/\ a # b
         /\ ~overlap
         /\ run[a].seq = 1
         /\ Stored(a)
         /\ run[a].decoded = "raised"
         /\ run[b].path # None)
        => /\ run[b].path = "hit"
           /\ ~run[b].fetched
           /\ run[b].decoded \in {"none", "raised"}
           /\ ~run[b].iso_ok
           /\ cache # Absent
           /\ cache = run[a].iso

\* C34 witness: both runs are over; the first fetched and cached an artifact
\* that did not decode, the second was served that artifact and its decode
\* raised as well.
C34_Witness ==
    /\ ~overlap
    /\ \A r \in Runs : run[r].pc = "done" /\ run[r].decoded = "raised"
    /\ \E a, b \in Runs :
          /\ run[a].seq = 1 /\ run[a].fetched
          /\ run[b].seq = 2 /\ run[b].path = "hit" /\ ~run[b].fetched
          /\ run[b].iso = run[a].iso

\* C35: two URLs whose names after the replacement agree on their first
\* SAFE_NAME_LEN characters have one cache file; once a run fetched and
\* cached the artifact of one of them, a run for the other takes the file
\* from the cache as it is: no fetch, and the content is the one fetched from
\* the first URL.
CollidingUrls(a, b) ==
    /\ cache_urls[a] # cache_urls[b]
    /\ FirstChars(KeptOrReplaced(cache_urls[a])) = FirstChars(KeptOrReplaced(cache_urls[b]))

Finished(r) == artifact[r].from \in {"cache", "network"}

C35_CollidingUrlsShareEntry ==
    \A a, b \in Runs :
        (CollidingUrls(a, b) /\ Resolved(a) /\ Resolved(b)) =>
            /\ cache_paths[a] = cache_paths[b]
            /\ (artifact[a].from = "network" /\ Finished(b)) =>
                  /\ artifact[b].from = "cache"
                  /\ artifact[b].origin = cache_urls[a]

\* C35 witness: the two URLs differ behind the cut; the second run was served
\* from the cache the artifact fetched from the first run's URL.
C35_Witness ==
    \E a, b \in Runs :
        /\ CollidingUrls(a, b)
        /\ Len(cache_urls[a]) > SAFE_NAME_LEN
        /\ artifact[a].from = "network"
        /\ artifact[b].from = "cache"
        /\ artifact[b].origin = cache_urls[a]
        /\ artifact[b].origin # cache_urls[b]

\* C36: in a run of the standard pipeline URLs are on record only when
\* dll_info is, so the summary never takes its middle branch: a finalized
\* run is high / Grandoreiro exactly when urls_found is not empty, and low /
\* Unknown otherwise.
C36_NeverMedium ==
    steps = StandardSteps =>
        /\ urls_found # {} => dll_info
        /\ threat_level \notin {"medium"}
        /\ malware_family # "Suspicious"
        /\ analysis_end =>
              /\ threat_level = (IF urls_found # {} THEN "high" ELSE "low")
              /\ malware_family = (IF urls_found # {} THEN "Grandoreiro" ELSE "Unknown")

\* C36 witness: a finalized standard run with URLs found, classified high;
\* its process_iso failed.
C36_Witness ==
    /\ steps = StandardSteps
    /\ pc = "returned"
    /\ urls_found # {}
    /\ threat_level = "high"
    /\ \E i \in 1..Len(stage_results) :
          stage_results[i].stage = PROCESS_ISO /\ ~stage_results[i].success

\* C37: every result in the history has the status completed or failed, and
\* completed exactly when its success flag is set; pending, running and
\* skipped are never recorded.
StageStatus == {"pending", "running", "completed", "failed", "skipped"}

C37_StatusFollowsSuccess ==
    \A i \in 1..Len(stage_results) :
        /\ stage_results[i].status \in StageStatus \ {"pending", "running", "skipped"}
        /\ stage_results[i].status = "completed" <=> stage_results[i].success
        /\ stage_results[i].status = "failed" <=> ~stage_results[i].success

\* C37 witness: a returned run whose history has a failed entry between
\* completed ones.
C37_Witness ==
    /\ pc = "returned"
    /\ Len(stage_results) = Len(StandardSteps)
    /\ stage_results[Len(stage_results)].status = "completed"
    /\ \E i, j \in 1..Len(stage_results) :
          /\ stage_results[i].status = "completed"
          /\ stage_results[j].status = "failed"

\* C38: two runs over the same strings record the same cnc_url and the same
\* download_url.
C38_LookupsDetermined ==
    \A a, b \in Runs :
        (url_records[a].done /\ url_records[b].done) =>
            /\ url_records[a].cnc_url = url_records[b].cnc_url
            /\ url_records[a].download_url = url_records[b].download_url

\* C39: a non-forced cleanup call on an existing session directory, none of
\* whose file operations fails, is skipped exactly when a *.debug file exists
\* anywhere under the directory, the top-level marker or a file unpacked from
\* the sample; a skipped call keeps the directory and both kinds of file; and
\* the session listing reports a marker for the top-level file only.
NonForcedCleanup ==
    CleanupCalled /\ dir_exists /\ ~cleanup_log'[Len(cleanup_log')].force

SkippedIffDebugFile ==
    NonForcedCleanup =>
        /\ cleanup_log'[Len(cleanup_log')].outcome \in {"skipped", "removed"}
        /\ cleanup_log'[Len(cleanup_log')].outcome = "skipped"
              <=> (debug_marker \/ nested_debug)
        /\ cleanup_log'[Len(cleanup_log')].outcome = "skipped"
              => (dir_exists' /\ UNCHANGED <<debug_marker, nested_debug>>)
        /\ cleanup_log'[Len(cleanup_log')].outcome = "removed" => ~dir_exists'

ListingSeesTopLevelOnly == has_debug_marker <=> debug_marker

C39_AnyDebugFileBlocksCleanup ==
    []ListingSeesTopLevelOnly /\ [][SkippedIffDebugFile]_vars

\* C39 witness: a non-forced cleanup was skipped on a directory that holds a
\* *.debug file unpacked from the sample and no top-level marker, so that the
\* listing reports no marker for the session.
C39_Witness ==
    /\ cleanup_log # <<>>
    /\ ~cleanup_log[Len(cleanup_log)].force
    /\ cleanup_log[Len(cleanup_log)].outcome = "skipped"
    /\ dir_exists
    /\ nested_debug
    /\ ~debug_marker
    /\ ~has_debug_marker

====
